---- MODULE Spec2Model ----
(***************************************************************************)
(* Milestone escrow state machine and automated market-cap confirmation    *)
(* engine of CommitToShip: the resolve-marketcap route                     *)
(* (src/app/api/admin/commitments/update/route.ts, second module of the    *)
(* file, lines 93-550) run by overlapping invocations against shared       *)
(* stores: commitments, canonical pair pins, price snapshots and the       *)
(* confirmation ledger.                                                    *)
(*                                                                         *)
(* Units: chain time in seconds; thresholdUsd in thousands of USD;         *)
(* supplyUi in millions of display units; priceE4 in 1/10000 USD, so that  *)
(* priceUsd >= thresholdUsd / supplyUi  <=>  priceE4 * supplyUi >=         *)
(* thresholdUsd * 10.  Lamports are plain integers.  The limit of a        *)
(* request is in tenths (5 is 0.5, 10 is 1), so that Math.floor acts on it. *)
(***************************************************************************)
EXTENDS Integers, Sequences, FiniteSets, TLC

VARIABLES
    commitments,   \* escrowStore: commitment id -> commitment record
    pins,          \* tokenMarketStore: set of canonical pair rows
    snapshots,     \* tokenMarketStore: set of price snapshot rows (append-only)
    ledger,        \* marketCapMilestonesStore: set of confirmation rows
    audit,         \* auditLog sink: set of recorded events
    chainTime,     \* chain reader: getChainUnixTime
    feed,          \* price feed: pairs currently returned for the token
    balance,       \* chain reader: escrow balance in lamports
    mintAuthority, \* chain reader: TRUE while the token has a mint authority
    inv,           \* per invocation slot: position and locals of POST
    env            \* process.env: the texts of the configuration variables

vars == <<commitments, pins, snapshots, ledger, audit, chainTime, feed, balance, mintAuthority, inv, env>>

----------------------------------------------------------------------------
(* Bounds and inputs *)

Null == 0
T0 == 1000
Hour == 60 * 60
ClaimDelayDefault == 48 * 60 * 60
LookbackDefault == 365 * 24 * 60 * 60
MinLiquidityDefault == 50000
MinVolumeH1Default == 0
MaxBatch == 200
NoLimit == 0

Slots == {1, 2}
ChainTimes == {T0, T0 + ClaimDelayDefault}
BalanceLow == 60
BalanceHigh == 100
Balances == {BalanceLow, BalanceHigh}
SupplyUi == 1000
ChainId == "solana"
Token == "T1"

PairA(price) ==
    [pairAddress |-> "pA", dexId |-> "dexA", chainId |-> ChainId, priceE4 |-> price,
     liquidityUsd |-> 80000, volumeH1Usd |-> 10, url |-> "uA"]

FeedStates == {<<>>, <<PairA(12)>>, <<PairA(25)>>}

\* a second pool of the token, with more liquidity than the first
PairB(price) ==
    [pairAddress |-> "pB", dexId |-> "dexB", chainId |-> ChainId, priceE4 |-> price,
     liquidityUsd |-> 90000, volumeH1Usd |-> 10, url |-> "uB"]

\* feeds in which the best candidate differs and the first pool may be missing
PinFeedStates == {<<PairA(12)>>, <<PairA(12), PairB(25)>>, <<PairB(25)>>}

Min(a, b) == IF a <= b THEN a ELSE b
Max(a, b) == IF a >= b THEN a ELSE b

Milestone(id, thr, reqNoMint, lamports, percent) ==
    [id |-> id, autoKind |-> "market_cap", marketCapThresholdUsd |-> thr,
     requireNoMintAuthority |-> reqNoMint, unlockLamports |-> lamports, unlockPercent |-> percent,
     status |-> "locked", completedAtUnix |-> Null, approvedAtUnix |-> Null,
     claimableAtUnix |-> Null, becameClaimableAtUnix |-> Null, autoConfirmedAtUnix |-> Null,
     autoEvidenceHitFetchedAtUnix |-> Null]

InitCommitment ==
    [id |-> "c1", kind |-> "creator_reward", tokenMint |-> Token, escrowPubkey |-> "e1",
     authority |-> "a1", status |-> "created", creatorFeeMode |-> "managed",
     milestones |-> << Milestone("m1", 1000, "true", 0, 50), Milestone("m2", 2000, "false", 5, 10) >>,
     unlockedLamports |-> 0, totalFundedLamports |-> 0]

CommitmentOrder == << "c1" >>

\* the order in which the store lists a batch of two commitments
BatchOrder == << "c1", "c2" >>

\* tokens that exist on chain as mint accounts
MintsOnChain == {Token}
CommitmentIds == {CommitmentOrder[k] : k \in 1..Len(CommitmentOrder)}
MilestoneIds == {"m1", "m2"}
Keys == CommitmentIds \X MilestoneIds

----------------------------------------------------------------------------
(* Pure helpers of the route *)

\* faulty variant: an approved milestone counts as unlocked
RECURSIVE computeUnlockedLamportsApproved(_)
computeUnlockedLamportsApproved(milestones) ==
    IF milestones = <<>> THEN 0
    ELSE (IF Head(milestones).status \in {"approved", "claimable", "released"}
          THEN Head(milestones).unlockLamports ELSE 0)
         + computeUnlockedLamportsApproved(Tail(milestones))

RECURSIVE computeUnlockedLamports(_)
computeUnlockedLamports(milestones) ==
    IF milestones = <<>> THEN 0
    ELSE (IF Head(milestones).status = "claimable" \/ Head(milestones).status = "released"
          THEN Head(milestones).unlockLamports ELSE 0)
         + computeUnlockedLamports(Tail(milestones))

RECURSIVE sumReleasedLamports(_)
sumReleasedLamports(milestones) ==
    IF milestones = <<>> THEN 0
    ELSE (IF Head(milestones).status = "released" THEN Head(milestones).unlockLamports ELSE 0)
         + sumReleasedLamports(Tail(milestones))

\* faulty variant: the percentage is looked at before the absolute amount
computeUnlockLamportsPercentFirst(m, totalFundedLamports) ==
    IF m.unlockPercent > 0 THEN (totalFundedLamports * m.unlockPercent) \div 100
    ELSE IF m.unlockLamports > 0 THEN m.unlockLamports
    ELSE 0

\* faulty variant: the percentage of the total is rounded up
computeUnlockLamportsCeil(m, totalFundedLamports) ==
    IF m.unlockLamports > 0 THEN m.unlockLamports
    ELSE IF m.unlockPercent > 0 THEN (totalFundedLamports * m.unlockPercent + 99) \div 100
    ELSE 0

\* faulty variant: only a negative amount is refused
invalidUnlockNegative(unlockLamports) == unlockLamports < 0

\* line 406: the computed unlock amount is refused
invalidUnlock(unlockLamports) == unlockLamports <= 0

\* lines 190-198
computeUnlockLamports(m, totalFundedLamports) ==
    IF m.unlockLamports > 0 THEN m.unlockLamports
    ELSE IF m.unlockPercent > 0 THEN (totalFundedLamports * m.unlockPercent) \div 100
    ELSE 0

isMarketCapMilestone(m) == m.autoKind = "market_cap"

\* lines 411-415: completion time, claimable time and next status of a hit
\* faulty variant: the completion time is the hit's fetch time
completedAtOfHit(nowUnix, hitAtUnix) == hitAtUnix

completedAtOf(nowUnix, hitAtUnix) == IF hitAtUnix > 0 THEN Min(nowUnix, hitAtUnix) ELSE nowUnix
desiredClaimableAtOf(completedAtUnix, claimDelaySeconds) == completedAtUnix + claimDelaySeconds
nextStatusOf(nowUnix, desiredClaimableAtUnix) ==
    IF nowUnix >= desiredClaimableAtUnix THEN "claimable" ELSE "approved"

\* faulty variant: the winner records the confirmation but leaves the milestone locked
confirmedMilestoneForgetful(m, unlockLamports, nowUnix, hitAtUnix, claimDelaySeconds) ==
    [m EXCEPT !.unlockLamports = unlockLamports,
              !.autoConfirmedAtUnix = nowUnix,
              !.autoEvidenceHitFetchedAtUnix = hitAtUnix]

\* faulty variant: the approval is stamped with the time of the confirmation
confirmedMilestoneApprovedNow(m, unlockLamports, nowUnix, hitAtUnix, claimDelaySeconds) ==
    LET completedAtUnix == completedAtOf(nowUnix, hitAtUnix)
        desired == desiredClaimableAtOf(completedAtUnix, claimDelaySeconds)
        nextStatus == nextStatusOf(nowUnix, desired)
    IN  [m EXCEPT !.unlockLamports = unlockLamports,
                  !.completedAtUnix = completedAtUnix,
                  !.approvedAtUnix = nowUnix,
                  !.claimableAtUnix = desired,
                  !.becameClaimableAtUnix = m.becameClaimableAtUnix,
                  !.status = nextStatus,
                  !.autoConfirmedAtUnix = nowUnix,
                  !.autoEvidenceHitFetchedAtUnix = hitAtUnix]

\* lines 479-489: the milestone as rewritten by the acquire winner
confirmedMilestone(m, unlockLamports, nowUnix, hitAtUnix, claimDelaySeconds) ==
    LET completedAtUnix == completedAtOf(nowUnix, hitAtUnix)
        desired == desiredClaimableAtOf(completedAtUnix, claimDelaySeconds)
        nextStatus == nextStatusOf(nowUnix, desired)
    IN  [m EXCEPT !.unlockLamports = unlockLamports,
                  !.completedAtUnix = completedAtUnix,
                  !.approvedAtUnix = completedAtUnix,
                  !.claimableAtUnix = desired,
                  !.becameClaimableAtUnix =
                      IF nextStatus = "claimable"
                      THEN (IF m.becameClaimableAtUnix = Null THEN nowUnix ELSE m.becameClaimableAtUnix)
                      ELSE m.becameClaimableAtUnix,
                  !.status = nextStatus,
                  !.autoConfirmedAtUnix = nowUnix,
                  !.autoEvidenceHitFetchedAtUnix = hitAtUnix]

\* String.prototype.toLowerCase on the flag texts that occur
toLowerCase(s) ==
    CASE s = "FALSE" -> "false"
      [] s = "False" -> "false"
      [] s = "TRUE" -> "true"
      [] s = "Yes" -> "yes"
      [] s = "ON" -> "on"
      [] OTHER -> s

\* faulty variant: the milestone must carry the flag 'true' to be guarded
requireNoMintAuthorityOptIn(m) == m.requireNoMintAuthority = "true"

\* line 373: the flag defaults to "true" when absent (the empty text here) and is
\* off only for "false"
requireNoMintAuthority(m) ==
    toLowerCase(IF m.requireNoMintAuthority = "" THEN "true" ELSE m.requireNoMintAuthority) # "false"

\* faulty variant: the guard looks at the milestone kind only
milestoneSkippedKindOnly(m) == ~isMarketCapMilestone(m)

\* lines 364-368: the milestone is skipped by the evaluation loop
milestoneSkipped(m) ==
    \/ ~isMarketCapMilestone(m)
    \/ m.status # "locked"
    \/ m.completedAtUnix # Null

\* lines 312-318: the commitment is a target of the invocation
isTarget(c, commitmentIdFilter) ==
    /\ c.kind = "creator_reward"
    /\ c.tokenMint # ""
    /\ (commitmentIdFilter = "" \/ c.id = commitmentIdFilter)
    /\ \E k \in 1..Len(c.milestones) :
          /\ isMarketCapMilestone(c.milestones[k])
          /\ c.milestones[k].status = "locked"
          /\ c.milestones[k].completedAtUnix = Null

RECURSIVE SelectTargets(_, _, _)
SelectTargets(order, cs, commitmentIdFilter) ==
    IF order = <<>> THEN <<>>
    ELSE (IF isTarget(cs[Head(order)], commitmentIdFilter) THEN << cs[Head(order)] >> ELSE <<>>)
         \o SelectTargets(Tail(order), cs, commitmentIdFilter)

\* line 311: the stored commitments in the store's order
listCommitments(cs) == SelectSeq(BatchOrder, LAMBDA id : id \in DOMAIN cs)

\* lines 341-345: the token is a mint account on chain
mintExists(tokenMint) == tokenMint \in MintsOnChain

\* Math.floor of a number given in tenths
floorTenths(x) == x \div 10

\* faulty variant: the limit is taken as it is, without the hard maximum
capTargetsUnclamped(targets, limit) ==
    IF limit > 0 THEN SubSeq(targets, 1, Min(Len(targets), floorTenths(limit))) ELSE targets

\* line 320: the request's limit (in tenths) caps the batch
capTargets(targets, limit) ==
    IF limit > 0 THEN SubSeq(targets, 1, Min(Len(targets), Min(MaxBatch, floorTenths(limit)))) ELSE targets

----------------------------------------------------------------------------
(* Configuration (process.env), lines 136-188 *)

\* String.prototype.trim on the texts that occur
trim(s) ==
    CASE s = " 1 " -> "1"
      [] s = " s3 " -> "s3"
      [] s = " " -> ""
      [] OTHER -> s

\* Number(text) on the texts that occur: whether the value is finite, and the value
\* (the empty and the blank text convert to 0, a text that is no numeral to NaN)
Number(s) ==
    CASE s = "" -> [finite |-> TRUE, value |-> 0]
      [] s = " " -> [finite |-> TRUE, value |-> 0]
      [] s = "0" -> [finite |-> TRUE, value |-> 0]
      [] s = "-1" -> [finite |-> TRUE, value |-> 0 - 1]
      [] s = "5" -> [finite |-> TRUE, value |-> 5]
      [] s = "3600" -> [finite |-> TRUE, value |-> 3600]
      [] s = "90000" -> [finite |-> TRUE, value |-> 90000]
      [] OTHER -> [finite |-> FALSE, value |-> 0]

\* the environment of a deployment that enables the engine and sets nothing else;
\* an unset variable is the empty text
DefaultEnv ==
    [CTS_ENABLE_MARKETCAP_MILESTONES |-> "1",
     REWARD_CLAIM_DELAY_SECONDS |-> "",
     CTS_MC_MIN_LIQUIDITY_USD |-> "",
     CTS_MC_MIN_VOLUME_H1_USD |-> "",
     CTS_MC_LOOKBACK_SECONDS |-> "",
     CRON_SECRET |-> ""]

\* faulty variant: the header is compared with the secret also when none is configured
isCronAuthorizedBlank(e, header) == trim(header) = trim(e.CRON_SECRET)

\* lines 121-127 (and 12-18): the request carries the configured secret
isCronAuthorized(e, header) ==
    LET secret == trim(e.CRON_SECRET) IN
    IF secret = "" THEN FALSE
    ELSE IF trim(header) = "" THEN FALSE
    ELSE trim(header) = secret

\* faulty variant: the gate lets every invocation pass
isMarketCapMilestonesEnabledAlways(e) == TRUE

\* lines 136-139
isMarketCapMilestonesEnabled(e) ==
    toLowerCase(trim(e.CTS_ENABLE_MARKETCAP_MILESTONES)) \in {"1", "true", "yes", "on"}

\* lines 141-147 (Math.floor is applied to a whole number of seconds here)
getClaimDelaySeconds(e) ==
    LET rawStr == e.REWARD_CLAIM_DELAY_SECONDS
        raw == Number(rawStr)
    IN  IF trim(rawStr) = "" THEN ClaimDelayDefault
        ELSE IF raw.finite /\ raw.value >= 0 THEN raw.value
        ELSE ClaimDelayDefault

\* lines 149-153
getMinLiquidityUsd(e) ==
    LET raw == Number(e.CTS_MC_MIN_LIQUIDITY_USD)
    IN  IF raw.finite /\ raw.value > 0 THEN raw.value ELSE MinLiquidityDefault

\* lines 155-161
getMinVolumeH1Usd(e) ==
    LET rawStr == e.CTS_MC_MIN_VOLUME_H1_USD
        raw == Number(rawStr)
    IN  IF trim(rawStr) = "" THEN MinVolumeH1Default
        ELSE IF raw.finite /\ raw.value >= 0 THEN raw.value
        ELSE MinVolumeH1Default

\* lines 181-188
getLookbackSeconds(e) ==
    LET rawStr == e.CTS_MC_LOOKBACK_SECONDS
        raw == Number(rawStr)
    IN  IF trim(rawStr) # "" /\ raw.finite /\ raw.value > 0 THEN raw.value
        ELSE LookbackDefault

----------------------------------------------------------------------------
(* Stores (lib/tokenMarketStore, lib/marketCapMilestonesStore, lib/escrowStore, *)
(* lib/dexScreener): their code is outside src/, modelled from the spec.      *)

NoPair == [pairAddress |-> "", dexId |-> "", url |-> ""]

getCanonicalPair(ps, tokenMint, chainId) ==
    IF \E p \in ps : p.tokenMint = tokenMint /\ p.chainId = chainId
    THEN LET p == CHOOSE q \in ps : q.tokenMint = tokenMint /\ q.chainId = chainId
         IN  [pairAddress |-> p.pairAddress, dexId |-> p.dexId, url |-> p.url]
    ELSE NoPair

\* faulty variant: the upsert replaces the pinned pair
upsertCanonicalPairOverwrite(ps, tokenMint, chainId, pairAddress, dexId, url) ==
    { p \in ps : ~(p.tokenMint = tokenMint /\ p.chainId = chainId) }
        \cup {[tokenMint |-> tokenMint, chainId |-> chainId, pairAddress |-> pairAddress,
               dexId |-> dexId, url |-> url]}

\* spec 4.1: the first pin is kept; a later upsert refreshes only the url
upsertCanonicalPair(ps, tokenMint, chainId, pairAddress, dexId, url) ==
    IF \E p \in ps : p.tokenMint = tokenMint /\ p.chainId = chainId
    THEN { IF p.tokenMint = tokenMint /\ p.chainId = chainId THEN [p EXCEPT !.url = url] ELSE p : p \in ps }
    ELSE ps \cup {[tokenMint |-> tokenMint, chainId |-> chainId, pairAddress |-> pairAddress,
                   dexId |-> dexId, url |-> url]}

\* spec 4.1: the candidate with the highest liquidity on the chain that meets the floor
pickBestCandidates(pairs, chainId, minLiquidityUsd) ==
    LET ok == { k \in 1..Len(pairs) : pairs[k].chainId = chainId /\ pairs[k].liquidityUsd >= minLiquidityUsd }
    IN  { k \in ok : \A j \in ok : pairs[j].liquidityUsd <= pairs[k].liquidityUsd }

NoHit == [tokenMint |-> "", chainId |-> "", pairAddress |-> "", dexId |-> "", fetchedAtUnix |-> Null,
          priceE4 |-> 0, liquidityUsd |-> 0, volumeH1Usd |-> 0]

\* faulty variant: the qualifying snapshots with the largest fetch time
findFirstAboveLatest(snaps, tokenMint, chainId, pairAddress, sinceUnix, thresholdUsd, supplyUi, minLiquidityUsd, minVolumeH1Usd) ==
    LET q == { s \in snaps :
                 /\ s.tokenMint = tokenMint /\ s.chainId = chainId /\ s.pairAddress = pairAddress
                 /\ s.fetchedAtUnix >= sinceUnix
                 /\ s.priceE4 * supplyUi >= thresholdUsd * 10
                 /\ s.liquidityUsd >= minLiquidityUsd
                 /\ s.volumeH1Usd >= minVolumeH1Usd }
    IN  { s \in q : \A t \in q : s.fetchedAtUnix >= t.fetchedAtUnix }

\* spec 4.2: the qualifying snapshots with the smallest fetch time
findFirstAbove(snaps, tokenMint, chainId, pairAddress, sinceUnix, thresholdUsd, supplyUi, minLiquidityUsd, minVolumeH1Usd) ==
    LET q == { s \in snaps :
                 /\ s.tokenMint = tokenMint /\ s.chainId = chainId /\ s.pairAddress = pairAddress
                 /\ s.fetchedAtUnix >= sinceUnix
                 /\ s.priceE4 * supplyUi >= thresholdUsd * 10
                 /\ s.liquidityUsd >= minLiquidityUsd
                 /\ s.volumeH1Usd >= minVolumeH1Usd }
    IN  { s \in q : \A t \in q : s.fetchedAtUnix <= t.fetchedAtUnix }

ledgerRows(l, commitmentId, milestoneId) ==
    { r \in l : r.commitmentId = commitmentId /\ r.milestoneId = milestoneId }

\* faulty variant: the insert does not look for an existing row
tryAcquireLedgerBlind(l, confirmation) == l \cup {confirmation}

\* spec 4.4: a single atomic insert keyed by (commitmentId, milestoneId)
tryAcquireLedger(l, confirmation) ==
    IF ledgerRows(l, confirmation.commitmentId, confirmation.milestoneId) = {}
    THEN l \cup {confirmation}
    ELSE l

tryAcquireAcquired(l, confirmation) ==
    ledgerRows(l, confirmation.commitmentId, confirmation.milestoneId) = {}

tryAcquireExisting(l, confirmation) ==
    CHOOSE r \in ledgerRows(l, confirmation.commitmentId, confirmation.milestoneId) : TRUE

\* escrowStore.updateRewardTotalsAndMilestones: one update of the commitment row
updateRewardTotalsAndMilestones(cs, id, milestones, unlockedLamports, totalFundedLamports, status) ==
    [cs EXCEPT ![id] = [@ EXCEPT !.milestones = milestones,
                                 !.unlockedLamports = unlockedLamports,
                                 !.totalFundedLamports = totalFundedLamports,
                                 !.status = status]]

\* faulty variant: the request replaces the record, fields it does not carry are blanked
updateCommitmentAdminFieldsReplace(cs, id, status, creatorFeeMode) ==
    [cs EXCEPT ![id] = [@ EXCEPT !.status = status, !.creatorFeeMode = creatorFeeMode,
                                 !.authority = "", !.escrowPubkey = ""]]

\* the administrative fields of one commitment; a field that is not given (the
\* empty text here) is kept
updateCommitmentAdminFields(cs, id, status, creatorFeeMode) ==
    [cs EXCEPT ![id] = [@ EXCEPT !.status = IF status = "" THEN @ ELSE status,
                                 !.creatorFeeMode = IF creatorFeeMode = "" THEN @ ELSE creatorFeeMode]]

----------------------------------------------------------------------------
(* Invocation locals *)

IdleInv ==
    [pc |-> "idle", nowUnix |-> Null, targets |-> <<>>, ci |-> 0, best |-> NoHit,
     canonical |-> NoPair, authority |-> FALSE, milestones |-> <<>>, mi |-> 0,
     anyChanged |-> FALSE, hit |-> NoHit, totalFunded |-> 0, unlock |-> 0,
     confirmedCount |-> 0, results |-> {}, error |-> ""]

Cur(l) == l.targets[l.ci]
CurM(l) == l.milestones[l.mi]

Running(l) == l.pc \notin {"idle", "done"}

\* a result entry pushed to results (lines 331-534)
Result(id, milestoneId, ok, step, confirmed, idempotent, note) ==
    [id |-> id, milestoneId |-> milestoneId, ok |-> ok, step |-> step,
     confirmed |-> confirmed, idempotent |-> idempotent, note |-> note]

\* `continue` of the commitment loop (line 325): the next target, or the end of the batch
NextCommitment(l) ==
    [l EXCEPT !.ci = l.ci + 1,
              !.pc = IF l.ci + 1 > Len(l.targets) THEN "finish" ELSE "ingest",
              !.best = NoHit, !.canonical = NoPair, !.authority = FALSE,
              !.milestones = <<>>, !.mi = 0, !.anyChanged = FALSE,
              !.hit = NoHit, !.totalFunded = 0, !.unlock = 0]

\* `continue` of the milestone loop (line 364): the next milestone, or the commit
NextMilestone(l) ==
    [l EXCEPT !.mi = l.mi + 1,
              !.pc = IF l.mi + 1 > Len(l.milestones) THEN "commit" ELSE "eval",
              !.hit = NoHit, !.totalFunded = 0, !.unlock = 0]

\* faulty variant: the record carries the amount configured on the milestone
confirmationOfConfigured(l) ==
    [commitmentId |-> Cur(l).id, milestoneId |-> CurM(l).id, tokenMint |-> Cur(l).tokenMint,
     confirmedAtUnix |-> l.nowUnix, totalFundedLamports |-> l.totalFunded,
     unlockLamports |-> CurM(l).unlockLamports, thresholdUsd |-> CurM(l).marketCapThresholdUsd,
     chainId |-> ChainId, pairAddress |-> l.canonical.pairAddress, dexId |-> l.canonical.dexId,
     hitAtUnix |-> completedAtOf(l.nowUnix, l.hit.fetchedAtUnix)]

\* lines 453-465: the confirmation handed to tryAcquire
confirmationOf(l) ==
    [commitmentId |-> Cur(l).id, milestoneId |-> CurM(l).id, tokenMint |-> Cur(l).tokenMint,
     confirmedAtUnix |-> l.nowUnix, totalFundedLamports |-> l.totalFunded,
     unlockLamports |-> l.unlock, thresholdUsd |-> CurM(l).marketCapThresholdUsd,
     chainId |-> ChainId, pairAddress |-> l.canonical.pairAddress, dexId |-> l.canonical.dexId,
     hitAtUnix |-> completedAtOf(l.nowUnix, l.hit.fetchedAtUnix)]

\* faulty variant: a mismatch is reported only when both the token and the threshold differ
existingMismatchBoth(ex, tokenMint, thresholdUsd) ==
    ex.tokenMint # tokenMint /\ ex.thresholdUsd # thresholdUsd

\* faulty variant: only the token of the existing row is compared
existingMismatchTokenOnly(ex, tokenMint, thresholdUsd) == ex.tokenMint # tokenMint

\* line 470: the existing row does not match what the caller computed
existingMismatch(ex, tokenMint, thresholdUsd) ==
    ex.tokenMint # tokenMint \/ ex.thresholdUsd # thresholdUsd

----------------------------------------------------------------------------
(* Init *)

\* a confirmation row left from an earlier definition of milestone m2 (other threshold)
StaleRow ==
    [commitmentId |-> "c1", milestoneId |-> "m2", tokenMint |-> Token, confirmedAtUnix |-> T0,
     totalFundedLamports |-> BalanceLow, unlockLamports |-> 5, thresholdUsd |-> 1500,
     chainId |-> ChainId, pairAddress |-> "pA", dexId |-> "dexA", hitAtUnix |-> T0]

Init ==
    /\ commitments = [id \in CommitmentIds |-> InitCommitment]
    /\ pins = {}
    /\ snapshots = {}
    /\ ledger \in {{}, {StaleRow}}
    /\ audit = {}
    /\ chainTime = T0
    /\ feed \in FeedStates
    /\ balance \in Balances
    /\ mintAuthority \in BOOLEAN
    /\ inv = [i \in Slots |-> IdleInv]
    /\ env = DefaultEnv

\* a stored snapshot row
Snap(pairAddress, fetchedAtUnix, priceE4, liquidityUsd, volumeH1Usd) ==
    [tokenMint |-> Token, chainId |-> ChainId, pairAddress |-> pairAddress,
     dexId |-> IF pairAddress = "pA" THEN "dexA" ELSE "dexB",
     fetchedAtUnix |-> fetchedAtUnix, priceE4 |-> priceE4,
     liquidityUsd |-> liquidityUsd, volumeH1Usd |-> volumeH1Usd]

\* stored snapshots the evaluator is asked about: prices 0.0008, 0.0009, 0.0012 at
\* increasing times, and rows that are too thin, too quiet, of another pair, too old
EvalPool ==
    { Snap("pA", 10, 8, 80000, 10), Snap("pA", 20, 9, 80000, 10), Snap("pA", 30, 12, 80000, 10),
      Snap("pA", 5, 12, 40000, 10), Snap("pA", 7, 12, 80000, 0), Snap("pB", 3, 12, 80000, 10),
      Snap("pA", 2, 12, 80000, 10) }

EvalSince == {1, 4}
EvalThresholds == {850, 1000}
EvalLiquidityFloors == {0, MinLiquidityDefault}
EvalVolumeFloors == {MinVolumeH1Default, 5}

\* any set of stored snapshots, nothing else in the stores
InitEval ==
    /\ commitments = [id \in CommitmentIds |-> InitCommitment]
    /\ pins = {}
    /\ snapshots \in SUBSET EvalPool
    /\ ledger = {}
    /\ audit = {}
    /\ chainTime = T0
    /\ feed = <<>>
    /\ balance = BalanceLow
    /\ mintAuthority = FALSE
    /\ inv = [i \in Slots |-> IdleInv]
    /\ env = DefaultEnv

\* a commitment whose first milestone was released by hand (7 lamports) or is
\* still locked, and whose second milestone has the given unlock fields
UnlockCommitment(firstReleased, lamports, percent) ==
    [InitCommitment EXCEPT
        !.milestones =
            << IF firstReleased
               THEN [Milestone("m1", 1000, "false", 7, 0) EXCEPT
                        !.status = "released", !.completedAtUnix = T0, !.approvedAtUnix = T0,
                        !.claimableAtUnix = T0, !.becameClaimableAtUnix = T0]
               ELSE Milestone("m1", 1000, "false", 0, 33),
               Milestone("m2", 1000, "false", lamports, percent) >>]

UnlockLamportsValues == {0, 5}
UnlockPercents == {0, 10, 33}
UnlockBalances == {0, 1, BalanceLow, BalanceHigh}

\* commitments with every combination of absolute amount and percentage, an
\* escrow that may be empty, a feed above both thresholds
InitUnlock ==
    /\ \E firstReleased \in BOOLEAN, lamports \in UnlockLamportsValues, percent \in UnlockPercents :
          commitments = [id \in CommitmentIds |-> UnlockCommitment(firstReleased, lamports, percent)]
    /\ pins = {}
    /\ snapshots = {}
    /\ ledger = {}
    /\ audit = {}
    /\ chainTime = T0
    /\ feed = <<PairA(12)>>
    /\ balance \in UnlockBalances
    /\ mintAuthority = FALSE
    /\ inv = [i \in Slots |-> IdleInv]
    /\ env = DefaultEnv

\* feeds whose only pair has no dex id or no price, besides the usual ones
BatchFeedStates ==
    FeedStates \cup { << [PairA(12) EXCEPT !.dexId = ""] >>, << PairA(0) >> }

\* a batch of two commitments; the token of the second may not be a mint
InitBatch ==
    /\ \E tokenMint \in {Token, "T2"} :
          commitments = [id \in {"c1", "c2"} |->
                            IF id = "c1" THEN InitCommitment
                            ELSE [InitCommitment EXCEPT !.id = "c2", !.tokenMint = tokenMint,
                                                        !.escrowPubkey = "e2"]]
    /\ pins = {}
    /\ snapshots = {}
    /\ ledger = {}
    /\ audit = {}
    /\ chainTime = T0
    /\ feed \in BatchFeedStates
    /\ balance = BalanceLow
    /\ mintAuthority \in BOOLEAN
    /\ inv = [i \in Slots |-> IdleInv]
    /\ env = DefaultEnv

\* no pair pinned yet, the token with a mint authority, a feed of one or two pools
InitPins ==
    /\ commitments = [id \in CommitmentIds |-> InitCommitment]
    /\ pins = {}
    /\ snapshots = {}
    /\ ledger = {}
    /\ audit = {}
    /\ chainTime = T0
    /\ feed \in PinFeedStates
    /\ balance = BalanceLow
    /\ mintAuthority = TRUE
    /\ inv = [i \in Slots |-> IdleInv]
    /\ env = DefaultEnv

\* one commitment in a status the administrator left it in, its first milestone
\* above its threshold
AdminInitStatuses == {"created", "active", "failed"}
InitAdmin ==
    /\ \E status \in AdminInitStatuses :
          commitments = [id \in CommitmentIds |-> [InitCommitment EXCEPT !.status = status]]
    /\ pins = {}
    /\ snapshots = {}
    /\ ledger = {}
    /\ audit = {}
    /\ chainTime = T0
    /\ feed = <<PairA(25)>>
    /\ balance = BalanceHigh
    /\ mintAuthority = FALSE
    /\ inv = [i \in Slots |-> IdleInv]
    /\ env = DefaultEnv

\* the deployments with and without a cron secret
CronSecrets == {"", " ", "s3"}
InitAuth ==
    /\ commitments = [id \in CommitmentIds |-> InitCommitment]
    /\ pins = {}
    /\ snapshots = {}
    /\ ledger = {}
    /\ audit = {}
    /\ chainTime = T0
    /\ feed = <<PairA(25)>>
    /\ balance = BalanceHigh
    /\ mintAuthority = FALSE
    /\ inv = [i \in Slots |-> IdleInv]
    /\ env \in { [DefaultEnv EXCEPT !.CRON_SECRET = secret] : secret \in CronSecrets }

\* stored commitments of every kind of (in)eligibility, as c1 and as c2
TargetVariants(id) ==
    LET c == [InitCommitment EXCEPT !.id = id, !.escrowPubkey = IF id = "c1" THEN "e1" ELSE "e2"]
        done(m) == [m EXCEPT !.status = "approved", !.completedAtUnix = T0, !.approvedAtUnix = T0,
                             !.claimableAtUnix = T0 + ClaimDelayDefault]
    IN  { c,
          [c EXCEPT !.kind = "personal"],
          [c EXCEPT !.tokenMint = ""],
          [c EXCEPT !.milestones = << done(c.milestones[1]), done(c.milestones[2]) >>],
          [c EXCEPT !.milestones = << [c.milestones[1] EXCEPT !.completedAtUnix = T0],
                                      [c.milestones[2] EXCEPT !.status = "released", !.completedAtUnix = T0] >>],
          [c EXCEPT !.milestones = << [c.milestones[1] EXCEPT !.autoKind = ""],
                                      [c.milestones[2] EXCEPT !.autoKind = "manual"] >>] }

InitTargets ==
    /\ commitments \in [{"c1", "c2"} -> TargetVariants("c1") \cup TargetVariants("c2")]
    /\ \A id \in {"c1", "c2"} : commitments[id].id = id
    /\ pins = {}
    /\ snapshots = {}
    /\ ledger = {}
    /\ audit = {}
    /\ chainTime = T0
    /\ feed = <<PairA(25)>>
    /\ balance = BalanceHigh
    /\ mintAuthority = FALSE
    /\ inv = [i \in Slots |-> IdleInv]
    /\ env = DefaultEnv

\* requests: the commitment id and the limit (in tenths) of the body
TargetFilters == {"", "c1", "c2", "zz"}
TargetLimits == {NoLimit, 0 - 10, 5, 10, 15, 20, 2010}

\* deployments: the texts of the feature flag, and at most one numeric variable set
FlagTexts == {"", "0", "off", "1", " 1 ", "TRUE", "Yes", "ON"}
ConfigTexts == {"abc", "-1", "0", "5", "3600", "90000"}
EnvStates ==
    { e \in [CTS_ENABLE_MARKETCAP_MILESTONES : FlagTexts,
              REWARD_CLAIM_DELAY_SECONDS : ConfigTexts \cup {""},
              CTS_MC_MIN_LIQUIDITY_USD : ConfigTexts \cup {""},
              CTS_MC_MIN_VOLUME_H1_USD : ConfigTexts \cup {""},
              CTS_MC_LOOKBACK_SECONDS : ConfigTexts \cup {""},
              CRON_SECRET : {""}] :
        Cardinality({ v \in {"REWARD_CLAIM_DELAY_SECONDS", "CTS_MC_MIN_LIQUIDITY_USD",
                             "CTS_MC_MIN_VOLUME_H1_USD", "CTS_MC_LOOKBACK_SECONDS"} : e[v] # "" }) <= 1 }

\* one commitment whose first milestone is above its threshold, under each deployment
InitGate ==
    /\ commitments = [id \in CommitmentIds |-> InitCommitment]
    /\ pins = {}
    /\ snapshots = {}
    /\ ledger = {}
    /\ audit = {}
    /\ chainTime = T0
    /\ feed = <<PairA(25)>>
    /\ balance = BalanceHigh
    /\ mintAuthority = FALSE
    /\ inv = [i \in Slots |-> IdleInv]
    /\ env \in EnvStates

----------------------------------------------------------------------------
(* The resolve-marketcap handler, one action per await *)

\* lines 295-323: chain time, listCommitments, targets, cap
StartWith(i, commitmentIdFilter, limit) ==
    /\ inv[i].pc = "idle"
    /\ isMarketCapMilestonesEnabled(env)
    /\ LET targets == capTargets(SelectTargets(listCommitments(commitments), commitments, commitmentIdFilter), limit)
       IN  inv' = [inv EXCEPT ![i] =
                      [IdleInv EXCEPT !.nowUnix = chainTime, !.targets = targets, !.ci = 1,
                                      !.pc = IF targets = <<>> THEN "finish" ELSE "ingest"]]
    /\ UNCHANGED <<commitments, pins, snapshots, ledger, audit, chainTime, feed, balance, mintAuthority, env>>

\* lines 276-284: the feature gate answers 503 before anything is read
Disabled(i) ==
    /\ inv[i].pc = "idle"
    /\ ~isMarketCapMilestonesEnabled(env)
    /\ inv' = [inv EXCEPT ![i] = [IdleInv EXCEPT !.pc = "done", !.error = "Market cap milestones are disabled"]]
    /\ UNCHANGED <<commitments, pins, snapshots, ledger, audit, chainTime, feed, balance, mintAuthority, env>>

\* lines 295-297 with the requests of TargetFilters and TargetLimits
StartRequest(i) ==
    \E commitmentIdFilter \in TargetFilters, limit \in TargetLimits :
        StartWith(i, commitmentIdFilter, limit)

\* lines 295-297: the request body may name one commitment and a limit
Start(i) ==
    \E commitmentIdFilter \in {"", "c1", "zz"}, limit \in {NoLimit, 10} :
        StartWith(i, commitmentIdFilter, limit)

\* faulty variant: the chosen pair is stored without a look at its fields
ingestErrorNone(b) == ""

\* lines 235-240: the chosen pair is refused before anything is stored
ingestError(b) ==
    IF b.pairAddress = "" \/ b.dexId = "" THEN "Invalid pair"
    ELSE IF b.priceE4 <= 0 THEN "Invalid price"
    ELSE ""

\* lines 215-241 and 330-333: read the pin and the feed, choose the pair
Ingest(i) ==
    /\ inv[i].pc = "ingest"
    /\ LET l == inv[i]
           tokenMint == Cur(l).tokenMint
           existingCanonical == getCanonicalPair(pins, tokenMint, ChainId)
           fromFeed == { k \in 1..Len(feed) :
                           existingCanonical.pairAddress # "" /\ feed[k].pairAddress = existingCanonical.pairAddress }
           cands == IF fromFeed # {} THEN {CHOOSE k \in fromFeed : \A j \in fromFeed : k <= j}
                    ELSE pickBestCandidates(feed, ChainId, getMinLiquidityUsd(env))
       IN  IF cands = {}
           THEN inv' = [inv EXCEPT ![i] = NextCommitment(
                           [l EXCEPT !.results = @ \cup {Result(Cur(l).id, "", FALSE, "ingest", FALSE, FALSE, "No suitable pair")}])]
           ELSE \E k \in cands :
                  LET b == feed[k] IN
                  IF ingestError(b) # ""
                  THEN inv' = [inv EXCEPT ![i] = NextCommitment(
                           [l EXCEPT !.results = @ \cup {Result(Cur(l).id, "", FALSE, "ingest", FALSE, FALSE, ingestError(b))}])]
                  ELSE inv' = [inv EXCEPT ![i] =
                           [l EXCEPT !.pc = "upsert",
                                     !.best = [tokenMint |-> tokenMint, chainId |-> ChainId,
                                               pairAddress |-> b.pairAddress, dexId |-> b.dexId,
                                               fetchedAtUnix |-> l.nowUnix, priceE4 |-> b.priceE4,
                                               liquidityUsd |-> b.liquidityUsd, volumeH1Usd |-> b.volumeH1Usd],
                                     !.canonical = [pairAddress |-> b.pairAddress, dexId |-> b.dexId, url |-> b.url]]]
    /\ UNCHANGED <<commitments, pins, snapshots, ledger, audit, chainTime, feed, balance, mintAuthority, env>>

\* line 244: upsertCanonicalPair
UpsertPin(i) ==
    /\ inv[i].pc = "upsert"
    /\ LET l == inv[i] IN
         /\ pins' = upsertCanonicalPair(pins, l.best.tokenMint, ChainId, l.best.pairAddress, l.best.dexId, l.canonical.url)
         /\ inv' = [inv EXCEPT ![i] = [l EXCEPT !.pc = "insert", !.canonical = NoPair]]
    /\ UNCHANGED <<commitments, snapshots, ledger, audit, chainTime, feed, balance, mintAuthority, env>>

\* lines 246-260: insertTokenMarketSnapshot
InsertSnapshot(i) ==
    /\ inv[i].pc = "insert"
    /\ LET l == inv[i] IN
         /\ snapshots' = snapshots \cup {l.best}
         /\ inv' = [inv EXCEPT ![i] = [l EXCEPT !.pc = "chain", !.best = NoHit]]
    /\ UNCHANGED <<commitments, pins, ledger, audit, chainTime, feed, balance, mintAuthority, env>>

\* lines 335-362: the pin, the mint and its authority, the milestones snapshot
ReadChain(i) ==
    /\ inv[i].pc = "chain"
    /\ LET l == inv[i]
           canonical == getCanonicalPair(pins, Cur(l).tokenMint, ChainId)
       IN  IF canonical = NoPair
           THEN inv' = [inv EXCEPT ![i] = NextCommitment(
                           [l EXCEPT !.results = @ \cup {Result(Cur(l).id, "", FALSE, "canonical", FALSE, FALSE, "Canonical pair missing")}])]
           ELSE IF ~mintExists(Cur(l).tokenMint)
           THEN inv' = [inv EXCEPT ![i] = NextCommitment(
                           [l EXCEPT !.results = @ \cup {Result(Cur(l).id, "", FALSE, "mint", FALSE, FALSE, "Mint not found")}])]
           ELSE inv' = [inv EXCEPT ![i] =
                           [l EXCEPT !.canonical = canonical, !.authority = mintAuthority,
                                     !.milestones = Cur(l).milestones, !.anyChanged = FALSE,
                                     !.mi = 1,
                                     !.pc = IF Len(Cur(l).milestones) = 0 THEN "commit" ELSE "eval"]]
    /\ UNCHANGED <<commitments, pins, snapshots, ledger, audit, chainTime, feed, balance, mintAuthority, env>>

\* faulty variant: the window opens after the chain time of the invocation
sinceUnixOfLate(nowUnix, lookbackSeconds) == Max(1, nowUnix + 1)

\* line 358: the start of the lookback window
sinceUnixOf(nowUnix, lookbackSeconds) == Max(1, nowUnix - lookbackSeconds)

\* lines 365-398: the guards of one milestone and the Threshold Evaluator
Evaluate(i) ==
    /\ inv[i].pc = "eval"
    /\ LET l == inv[i]
           m == CurM(l)
           thresholdUsd == m.marketCapThresholdUsd
           sinceUnix == sinceUnixOf(l.nowUnix, getLookbackSeconds(env))
           hits == findFirstAbove(snapshots, Cur(l).tokenMint, ChainId, l.canonical.pairAddress,
                                  sinceUnix, thresholdUsd, SupplyUi, getMinLiquidityUsd(env), getMinVolumeH1Usd(env))
       IN  IF milestoneSkipped(m) \/ thresholdUsd <= 0
           THEN inv' = [inv EXCEPT ![i] = NextMilestone(l)]
           ELSE IF requireNoMintAuthority(m) /\ l.authority
           THEN inv' = [inv EXCEPT ![i] = NextMilestone(
                           [l EXCEPT !.results = @ \cup {Result(Cur(l).id, m.id, TRUE, "evaluate", FALSE, FALSE, "mint_authority_present")}])]
           ELSE IF SupplyUi <= 0
           THEN inv' = [inv EXCEPT ![i] = NextMilestone(
                           [l EXCEPT !.results = @ \cup {Result(Cur(l).id, m.id, FALSE, "evaluate", FALSE, FALSE, "Invalid token supply")}])]
           ELSE IF hits = {}
           THEN inv' = [inv EXCEPT ![i] = NextMilestone(
                           [l EXCEPT !.results = @ \cup {Result(Cur(l).id, m.id, TRUE, "evaluate", FALSE, FALSE, "threshold_not_hit")}])]
           ELSE \E h \in hits : inv' = [inv EXCEPT ![i] = [l EXCEPT !.hit = h, !.pc = "balance"]]
    /\ UNCHANGED <<commitments, pins, snapshots, ledger, audit, chainTime, feed, balance, mintAuthority, env>>

\* lines 400-409: escrow balance, total funded and unlock amount
ReadBalance(i) ==
    /\ inv[i].pc = "balance"
    /\ LET l == inv[i]
           m == CurM(l)
           totalFundedLamports == Max(0, balance + sumReleasedLamports(l.milestones))
           unlockLamports == computeUnlockLamports(m, totalFundedLamports)
       IN  IF invalidUnlock(unlockLamports)
           THEN inv' = [inv EXCEPT ![i] = NextMilestone(
                           [l EXCEPT !.results = @ \cup {Result(Cur(l).id, m.id, FALSE, "unlock", FALSE, FALSE, "Invalid unlock amount")}])]
           ELSE inv' = [inv EXCEPT ![i] =
                           [l EXCEPT !.totalFunded = totalFundedLamports, !.unlock = unlockLamports, !.pc = "acquire"]]
    /\ UNCHANGED <<commitments, pins, snapshots, ledger, audit, chainTime, feed, balance, mintAuthority, env>>

\* lines 467-492: tryAcquire, the loser's branches, the winner's transition
Acquire(i) ==
    /\ inv[i].pc = "acquire"
    /\ LET l == inv[i]
           m == CurM(l)
           confirmation == confirmationOf(l)
       IN  /\ ledger' = tryAcquireLedger(ledger, confirmation)
           /\ IF ~tryAcquireAcquired(ledger, confirmation)
              THEN LET ex == tryAcquireExisting(ledger, confirmation) IN
                   IF existingMismatch(ex, Cur(l).tokenMint, m.marketCapThresholdUsd)
                   THEN inv' = [inv EXCEPT ![i] = NextMilestone(
                           [l EXCEPT !.results = @ \cup {Result(Cur(l).id, m.id, FALSE, "confirm", FALSE, FALSE, "Existing confirmation mismatch")}])]
                   ELSE inv' = [inv EXCEPT ![i] = NextMilestone(
                           [l EXCEPT !.results = @ \cup {Result(Cur(l).id, m.id, TRUE, "confirm", TRUE, TRUE, "")}])]
              ELSE inv' = [inv EXCEPT ![i] =
                           [l EXCEPT !.milestones[l.mi] = confirmedMilestone(m, l.unlock, l.nowUnix, l.hit.fetchedAtUnix, getClaimDelaySeconds(env)),
                                         !.anyChanged = TRUE,
                                         !.confirmedCount = @ + 1,
                                         !.pc = "audit"]]
    /\ UNCHANGED <<commitments, pins, snapshots, audit, chainTime, feed, balance, mintAuthority, env>>

\* lines 494-513: the audit record and the result of a confirmation
AuditConfirmed(i) ==
    /\ inv[i].pc = "audit"
    /\ LET l == inv[i]
           m == CurM(l)
       IN  /\ audit' = audit \cup {[event |-> "marketcap_milestone_confirmed", commitmentId |-> Cur(l).id, milestoneId |-> m.id]}
           /\ inv' = [inv EXCEPT ![i] = NextMilestone(
                         [l EXCEPT !.results = @ \cup {Result(Cur(l).id, m.id, TRUE, "confirm", TRUE, FALSE, "")}])]
    /\ UNCHANGED <<commitments, pins, snapshots, ledger, chainTime, feed, balance, mintAuthority, env>>

\* line 494, the audit sink fails while recording the confirmation: the sink
\* either keeps its failure to itself (the record is lost, the call returns) or
\* rejects, and the rejection reaches the catch of lines 546-549
AuditSinkFails(i) ==
    /\ inv[i].pc = "audit"
    /\ LET l == inv[i]
           m == CurM(l)
       IN  \E rejects \in BOOLEAN :
             inv' = [inv EXCEPT ![i] =
                       IF rejects
                       THEN [IdleInv EXCEPT !.pc = "done", !.error = "error"]
                       ELSE NextMilestone(
                              [l EXCEPT !.results = @ \cup {Result(Cur(l).id, m.id, TRUE, "confirm", TRUE, FALSE, "")}])]
    /\ UNCHANGED <<commitments, pins, snapshots, ledger, audit, chainTime, feed, balance, mintAuthority, env>>

\* faulty variant: the commitment is written after every evaluation
commitNeededAlways(l) == TRUE

\* line 516: the commitment is written only when a milestone changed
commitNeeded(l) == l.anyChanged

\* lines 516-534: one update of the commitment when a milestone changed
Commit(i) ==
    /\ inv[i].pc = "commit"
    /\ LET l == inv[i]
           c == Cur(l)
           totalFundedLamports == Max(0, balance + sumReleasedLamports(l.milestones))
           done == NextCommitment([l EXCEPT !.results = @ \cup {Result(c.id, "", TRUE, "done", FALSE, FALSE, "")}])
       IN  /\ commitments' =
                IF commitNeeded(l)
                THEN updateRewardTotalsAndMilestones(commitments, c.id, l.milestones,
                        computeUnlockedLamports(l.milestones), totalFundedLamports,
                        IF c.status = "created" THEN "active" ELSE c.status)
                ELSE commitments
           /\ inv' = [inv EXCEPT ![i] = done]
    /\ UNCHANGED <<pins, snapshots, ledger, audit, chainTime, feed, balance, mintAuthority, env>>

\* lines 537-545: the completed audit record and the response
Finish(i) ==
    /\ inv[i].pc = "finish"
    /\ inv' = [inv EXCEPT ![i] = [IdleInv EXCEPT !.pc = "done", !.results = inv[i].results]]
    /\ UNCHANGED <<commitments, pins, snapshots, ledger, audit, chainTime, feed, balance, mintAuthority, env>>

\* lines 546-549: an awaited call throws (feed, chain, store or audit sink) or the process stops
Crash(i) ==
    /\ Running(inv[i])
    /\ inv' = [inv EXCEPT ![i] = [IdleInv EXCEPT !.pc = "done", !.error = "error"]]
    /\ UNCHANGED <<commitments, pins, snapshots, ledger, audit, chainTime, feed, balance, mintAuthority, env>>

\* the scheduler or an administrator invokes the route again
Reinvoke(i) ==
    /\ inv[i].pc = "done"
    /\ inv' = [inv EXCEPT ![i] = IdleInv]
    /\ UNCHANGED <<commitments, pins, snapshots, ledger, audit, chainTime, feed, balance, mintAuthority, env>>

\* lines 385-398: one call of the threshold evaluator for the pinned pair pA;
\* the caller keeps the hit
EvaluatorCallWith(i, sinceUnix, thresholdUsd, minLiquidityUsd, minVolumeH1Usd) ==
    /\ inv[i].pc = "idle"
    /\ LET hits == findFirstAbove(snapshots, Token, ChainId, "pA", sinceUnix, thresholdUsd,
                                  SupplyUi, minLiquidityUsd, minVolumeH1Usd)
       IN  IF hits = {}
           THEN inv' = [inv EXCEPT ![i] = [IdleInv EXCEPT !.pc = "done"]]
           ELSE \E h \in hits : inv' = [inv EXCEPT ![i] = [IdleInv EXCEPT !.pc = "done", !.hit = h]]
    /\ UNCHANGED <<commitments, pins, snapshots, ledger, audit, chainTime, feed, balance, mintAuthority, env>>

EvaluatorCall(i) ==
    \E sinceUnix \in EvalSince, thresholdUsd \in EvalThresholds,
       minLiquidityUsd \in EvalLiquidityFloors, minVolumeH1Usd \in EvalVolumeFloors :
        EvaluatorCallWith(i, sinceUnix, thresholdUsd, minLiquidityUsd, minVolumeH1Usd)

\* the invocation stops (process crash, or a throw caught at lines 546-549)
\* after it won tryAcquire and before line 523 stored the transition
CrashAfterAcquire(i) ==
    /\ inv[i].pc \in {"audit", "commit"}
    /\ inv[i].anyChanged \/ inv[i].pc = "audit"
    /\ inv' = [inv EXCEPT ![i] = [IdleInv EXCEPT !.pc = "done", !.error = "error"]]
    /\ UNCHANGED <<commitments, pins, snapshots, ledger, audit, chainTime, feed, balance, mintAuthority, env>>

----------------------------------------------------------------------------
(* The admin update handler (first module of the file, lines 20-91) *)

\* faulty variant: the handler also accepts the status deleted
CommitmentStatusesLoose ==
    {"created", "resolving", "resolved_success", "resolved_failure", "active", "completed", "failed",
     "archived", "deleted"}

\* lines 53-64: the status texts the handler accepts
CommitmentStatuses ==
    {"created", "resolving", "resolved_success", "resolved_failure", "active", "completed", "failed", "archived"}

\* requests: the id, status and creatorFeeMode of the body ("" when not given)
AdminIds == {"c1", "zz"}
AdminRequestIds == AdminIds \cup {""}
AdminStatuses == {"", "active", "failed", "archived", "deleted"}
AdminFeeModes == {"", "assisted", "auto"}

\* lines 38-86: validation, getCommitment, updateCommitmentAdminFields, audit record
AdminUpdateWith(id, status, creatorFeeMode) ==
    /\ IF \/ id = ""
          \/ (status # "" /\ status \notin CommitmentStatuses)
          \/ (creatorFeeMode # "" /\ creatorFeeMode \notin {"managed", "assisted"})
          \/ id \notin DOMAIN commitments
       THEN UNCHANGED <<commitments, audit>>
       ELSE /\ commitments' = updateCommitmentAdminFields(commitments, id, status, creatorFeeMode)
            /\ audit' = audit \cup {[event |-> "admin_commitment_update_ok", commitmentId |-> id, milestoneId |-> ""]}
    /\ UNCHANGED <<pins, snapshots, ledger, chainTime, feed, balance, mintAuthority, inv, env>>

AdminUpdate ==
    \E id \in AdminIds, status \in AdminStatuses, creatorFeeMode \in AdminFeeModes :
        AdminUpdateWith(id, status, creatorFeeMode)

----------------------------------------------------------------------------
(* Authorization of both routes (lines 29-36 and 286-293) *)

\* requests: the x-cron-secret header, whether verifyAdminOrigin passes (it
\* throws otherwise), and the answer of isAdminRequestAsync
Headers == {"", "s3", " s3 ", "bad", " "}

\* an audit record that carries no commitment
Event(name) == [event |-> name, commitmentId |-> "", milestoneId |-> ""]

\* lines 286-293: the cron secret, else the origin and the admin oracle
requestAllowed(e, header, originOk, admin) ==
    isCronAuthorized(e, header) \/ (originOk /\ admin)

\* lines 286-293 of the resolve route, then the handler
ResolveRequestWith(i, header, originOk, admin) ==
    IF requestAllowed(env, header, originOk, admin)
    THEN Start(i)
    ELSE /\ inv[i].pc = "idle"
         /\ isMarketCapMilestonesEnabled(env)
         /\ audit' = audit \cup {Event(IF originOk THEN "admin_resolve_marketcap_denied"
                                                  ELSE "admin_resolve_marketcap_error")}
         /\ inv' = [inv EXCEPT ![i] = [IdleInv EXCEPT !.pc = "done",
                                                      !.error = IF originOk THEN "Unauthorized" ELSE "error"]]
         /\ UNCHANGED <<commitments, pins, snapshots, ledger, chainTime, feed, balance, mintAuthority, env>>

ResolveRequest(i) ==
    \E header \in Headers, originOk \in BOOLEAN, admin \in BOOLEAN :
        ResolveRequestWith(i, header, originOk, admin)

\* lines 29-36 of the admin update route, then the handler
AdminRequestWith(header, originOk, admin, id, status, creatorFeeMode) ==
    IF requestAllowed(env, header, originOk, admin)
    THEN AdminUpdateWith(id, status, creatorFeeMode)
    ELSE /\ audit' = audit \cup {Event(IF originOk THEN "admin_commitment_update_denied"
                                                  ELSE "admin_commitment_update_error")}
         /\ UNCHANGED <<commitments, pins, snapshots, ledger, chainTime, feed, balance, mintAuthority, inv, env>>

\* every request of the bounds to the admin update route
AdminHeaders == {"s3", "bad"}
AdminRequestAny ==
    \E header \in AdminHeaders, originOk \in BOOLEAN, admin \in BOOLEAN,
       id \in AdminRequestIds, status \in AdminStatuses, creatorFeeMode \in AdminFeeModes :
        AdminRequestWith(header, originOk, admin, id, status, creatorFeeMode)

\* requests for a status of commitment c1
AuthStatuses == {"active", "failed"}
AdminRequest ==
    \E header \in Headers, originOk \in BOOLEAN, admin \in BOOLEAN, status \in AuthStatuses :
        AdminRequestWith(header, originOk, admin, "c1", status, "")

----------------------------------------------------------------------------
(* Environment *)

AdvanceTime ==
    /\ \E t \in ChainTimes : t > chainTime /\ chainTime' = t
    /\ UNCHANGED <<commitments, pins, snapshots, ledger, audit, feed, balance, mintAuthority, inv, env>>

FeedChange ==
    /\ \E f \in FeedStates : f # feed /\ feed' = f
    /\ UNCHANGED <<commitments, pins, snapshots, ledger, audit, chainTime, balance, mintAuthority, inv, env>>

\* the feed lists other pools of the token
FeedReshuffle ==
    /\ \E f \in PinFeedStates : f # feed /\ feed' = f
    /\ UNCHANGED <<commitments, pins, snapshots, ledger, audit, chainTime, balance, mintAuthority, inv, env>>

\* the feed answers differently from one commitment of the batch to the next
FeedFlip ==
    /\ \E f \in BatchFeedStates : f # feed /\ feed' = f
    /\ UNCHANGED <<commitments, pins, snapshots, ledger, audit, chainTime, balance, mintAuthority, inv, env>>

\* creator fees reach the escrow account
EscrowDeposit ==
    /\ \E b \in Balances : b > balance /\ balance' = b
    /\ UNCHANGED <<commitments, pins, snapshots, ledger, audit, chainTime, feed, mintAuthority, inv, env>>

RevokeMintAuthority ==
    /\ mintAuthority
    /\ mintAuthority' = FALSE
    /\ UNCHANGED <<commitments, pins, snapshots, ledger, audit, chainTime, feed, balance, inv, env>>

\* the steps of an invocation after its start
Work(i) ==
    \/ Ingest(i) \/ UpsertPin(i) \/ InsertSnapshot(i) \/ ReadChain(i)
    \/ Evaluate(i) \/ ReadBalance(i) \/ Acquire(i) \/ AuditConfirmed(i) \/ Commit(i) \/ Finish(i)

Step(i) == Start(i) \/ Work(i)

\* overlapping invocations, each of which may stop at any await
Next ==
    \/ \E i \in Slots : Step(i) \/ Crash(i) \/ Reinvoke(i)
    \/ AdvanceTime \/ EscrowDeposit

Spec == Init /\ [][Next]_vars

\* two overlapping invocations, each run once to its response, under a moving market
NextMarket ==
    \/ \E i \in Slots : Step(i)
    \/ AdvanceTime \/ FeedChange \/ RevokeMintAuthority

SpecMarket == Init /\ [][NextMarket]_vars

\* two runs in immediate succession: the second starts when the first has responded;
\* feed, chain accounts and configuration stay as they are
NextSeq ==
    \/ inv[1].pc # "done" /\ Step(1)
    \/ inv[1].pc = "done" /\ Step(2)
    \/ AdvanceTime

SpecSeq == Init /\ [][NextSeq]_vars

\* two overlapping invocations while the pools listed by the feed change
NextPins ==
    \/ \E i \in Slots : Step(i)
    \/ FeedReshuffle

SpecPins == InitPins /\ [][NextPins]_vars

\* the threshold evaluator applied to stored snapshots
NextEval == EvaluatorCall(1) \/ Reinvoke(1)

SpecEval == InitEval /\ [][NextEval]_vars

\* one run over commitments of every unlock shape while fees reach the escrow
NextUnlock == Step(1) \/ EscrowDeposit

SpecUnlock == InitUnlock /\ [][NextUnlock]_vars

\* one run over a batch of two commitments; the feed changes between them and
\* an awaited call may throw
NextBatch == Step(1) \/ Crash(1) \/ FeedFlip

SpecBatch == InitBatch /\ [][NextBatch]_vars

\* one scheduler that keeps invoking the route for all commitments (empty
\* body); an invocation may stop between its acquire and its commit
ScheduledRun(i) == StartWith(i, "", NoLimit) \/ Work(i)

NextRetry ==
    \/ ScheduledRun(1) \/ CrashAfterAcquire(1) \/ Reinvoke(1)
    \/ AdvanceTime \/ EscrowDeposit

SpecRetry == Init /\ [][NextRetry]_vars /\ WF_vars(ScheduledRun(1)) /\ WF_vars(Reinvoke(1))

\* one invocation after the other under each deployment of EnvStates
NextGate == Step(1) \/ Disabled(1) \/ Reinvoke(1)

SpecGate == InitGate /\ [][NextGate]_vars

\* one invocation at a time while the administrator updates the commitment
NextAdmin == Step(1) \/ Reinvoke(1) \/ AdminUpdate

SpecAdmin == InitAdmin /\ [][NextAdmin]_vars

\* one invocation at a time with an audit sink that may fail
NextAudit == Step(1) \/ AuditSinkFails(1) \/ Reinvoke(1)

SpecAudit == Init /\ [][NextAudit]_vars

\* one invocation at a time over stored commitments of every kind
NextTargets == StartRequest(1) \/ Work(1) \/ Reinvoke(1)

SpecTargets == InitTargets /\ [][NextTargets]_vars

\* requests to both routes, one engine invocation at a time
NextAuth == ResolveRequest(1) \/ Work(1) \/ Reinvoke(1) \/ AdminRequest

SpecAuth == InitAuth /\ [][NextAuth]_vars

\* requests to the admin update route only
NextAdminRequests == AdminRequestAny

SpecAdminRequests == InitAuth /\ [][NextAdminRequests]_vars

----------------------------------------------------------------------------
(* Observations used by the properties *)

MilestoneOf(ms, milestoneId) == ms[CHOOSE j \in 1..Len(ms) : ms[j].id = milestoneId]

Stored(cs, k) == MilestoneOf(cs[k[1]].milestones, k[2])

Confirmed(m) == m.status \in {"approved", "claimable"} /\ m.completedAtUnix # Null

\* the running invocation holds a transition of key k that it has not committed
HoldsWin(l, k) ==
    /\ l.pc \in {"eval", "balance", "acquire", "audit", "commit"}
    /\ Cur(l).id = k[1]
    /\ MilestoneOf(l.milestones, k[2]) # MilestoneOf(Cur(l).milestones, k[2])

\* the key the invocation is at while it works on a milestone
AtKey(l) == <<Cur(l).id, CurM(l).id>>

\* the step is the return of tryAcquire to invocation i
AcquireReturns(i) == inv[i].pc = "acquire" /\ inv'[i].pc \notin {"acquire", "done"}

----------------------------------------------------------------------------
(* C1  Under any interleaving of overlapping or retried invocations the    *)
(* ledger holds at most one row per (commitmentId, milestoneId), and an    *)
(* accepted row is never changed or removed by a later tryAcquire.         *)

C1_AtMostOneRow ==
    \A r1 \in ledger, r2 \in ledger :
        (r1.commitmentId = r2.commitmentId /\ r1.milestoneId = r2.milestoneId) => r1 = r2

C1_RowsKept == \A r \in ledger : r \in ledger'

C1_LedgerAcceptsOnce == []C1_AtMostOneRow /\ [][C1_RowsKept]_vars

\* a tryAcquire met an accepted row: its caller holds the idempotent result
C1_Witness ==
    \E i \in Slots : \E r \in inv[i].results :
        r.idempotent /\ ledgerRows(ledger, r.id, r.milestoneId) # {}

----------------------------------------------------------------------------
(* C2  Of two invocations that call tryAcquire for the same key with       *)
(* different computed unlock amounts exactly one is the winner; the other  *)
(* is handed the winner's row and reports a data-integrity error if and    *)
(* only if the row's tokenMint or thresholdUsd differs from its own.       *)

C2_OneWinner ==
    \A k \in Keys : \A i \in Slots, j \in Slots :
        i # j => ~(HoldsWin(inv[i], k) /\ HoldsWin(inv[j], k))

C2_AcquireStep ==
    \A i \in Slots : AcquireReturns(i) =>
        LET l == inv[i]
            k == AtKey(l)
            rows == ledgerRows(ledger, k[1], k[2])
            new == inv'[i].results \ l.results
        IN  IF rows = {}
            THEN /\ inv'[i].pc = "audit"
                 /\ HoldsWin(inv'[i], k)
                 /\ \E r \in ledger' :
                       /\ ledger' = ledger \cup {r}
                       /\ r.commitmentId = k[1] /\ r.milestoneId = k[2]
                       /\ r.unlockLamports = l.unlock
                       /\ r.totalFundedLamports = l.totalFunded
            ELSE /\ ledger' = ledger
                 /\ inv'[i].pc # "audit"
                 /\ ~HoldsWin(inv'[i], k)
                 /\ \E ex \in rows : \E e \in new :
                       /\ rows = {ex}
                       /\ new = {e}
                       /\ e.id = k[1] /\ e.milestoneId = k[2] /\ e.step = "confirm"
                       /\ IF ex.tokenMint # Cur(l).tokenMint \/ ex.thresholdUsd # CurM(l).marketCapThresholdUsd
                          THEN ~e.ok /\ ~e.confirmed /\ e.note = "Existing confirmation mismatch"
                          ELSE e.ok /\ e.confirmed /\ e.idempotent

C2_RaceCollapses == []C2_OneWinner /\ [][C2_AcquireStep]_vars

\* the winner has acquired; the other invocation is at tryAcquire for the same
\* key with another unlock amount than the accepted row carries
C2_Witness ==
    \E i \in Slots, j \in Slots :
        /\ i # j
        /\ inv[i].pc = "audit" /\ inv[j].pc = "acquire"
        /\ AtKey(inv[i]) = AtKey(inv[j])
        /\ \E r \in ledgerRows(ledger, AtKey(inv[j])[1], AtKey(inv[j])[2]) :
              /\ r.unlockLamports = MilestoneOf(inv[i].milestones, AtKey(inv[i])[2]).unlockLamports
              /\ r.unlockLamports # inv[j].unlock

----------------------------------------------------------------------------
(* C3  A milestone's stored state is changed by the engine only through    *)
(* the invocation that won tryAcquire for it: a stored engine confirmation *)
(* has its ledger row, and a commit changes the stored value of a          *)
(* milestone only if the committing invocation won that milestone.         *)

CommitReturns(i) == inv[i].pc = "commit" /\ inv'[i].pc \in {"ingest", "finish"}

C3_OnlyWinnerWrites ==
    [][ /\ \A k \in Keys :
              Stored(commitments', k).autoConfirmedAtUnix # Null => ledgerRows(ledger', k[1], k[2]) # {}
        /\ \A i \in Slots : CommitReturns(i) =>
              \A k \in Keys :
                  Stored(commitments', k) # Stored(commitments, k) => HoldsWin(inv[i], k) ]_vars

----------------------------------------------------------------------------
(* C4  When two overlapping invocations each won a different milestone of  *)
(* one commitment and both have finished their work, the stored commitment *)
(* shows both milestones confirmed.                                        *)

ConfirmedBy(l, k) ==
    \E r \in l.results : r.id = k[1] /\ r.milestoneId = k[2] /\ r.confirmed /\ ~r.idempotent

C4_BothTransitionsStored ==
    \A k1 \in Keys, k2 \in Keys :
        ( /\ k1 # k2 /\ k1[1] = k2[1]
          /\ inv[1].pc = "finish" /\ inv[2].pc = "finish"
          /\ ConfirmedBy(inv[1], k1) /\ ConfirmedBy(inv[2], k2) )
        => Confirmed(Stored(commitments, k1)) /\ Confirmed(Stored(commitments, k2))

----------------------------------------------------------------------------
(* C5  When an invocation won tryAcquire for a milestone and stopped       *)
(* before its commit, repeated re-invocation eventually stores the         *)
(* milestone as no longer locked with completedAtUnix set.                 *)

\* an accepted row of the caller's own token and threshold whose transition
\* no invocation holds and the store has not received
Orphaned(k) ==
    /\ \E r \in ledgerRows(ledger, k[1], k[2]) :
          /\ r.tokenMint = commitments[k[1]].tokenMint
          /\ r.thresholdUsd = Stored(commitments, k).marketCapThresholdUsd
    /\ Stored(commitments, k).status = "locked"
    /\ \A i \in Slots : ~HoldsWin(inv[i], k)

C5_RetryCompletes ==
    \A k \in Keys :
        Orphaned(k) ~> (Stored(commitments, k).status # "locked" /\ Stored(commitments, k).completedAtUnix # Null)

----------------------------------------------------------------------------
(* C8  Under every sequence of invocations, sequential or overlapping, the *)
(* stored status of a milestone never moves backwards in the order         *)
(* locked, approved, claimable, released.                                  *)

Rank(status) ==
    CASE status = "locked" -> 0
      [] status = "approved" -> 1
      [] status = "claimable" -> 2
      [] status = "released" -> 3

C8_StatusNeverRegresses ==
    [][\A k \in Keys :
          Rank(Stored(commitments', k).status) >= Rank(Stored(commitments, k).status)]_vars

----------------------------------------------------------------------------
(* C6  Two runs in immediate succession with an unchanged feed, chain      *)
(* state and configuration: a qualifying milestone gets exactly one ledger *)
(* row and exactly one transition, and the second run changes neither the  *)
(* ledger nor the stored commitments.                                      *)

\* the ledger holds a row of the commitment's own token and threshold
OwnRow(k) ==
    \E r \in ledgerRows(ledger, k[1], k[2]) :
        /\ r.tokenMint = commitments[k[1]].tokenMint
        /\ r.thresholdUsd = Stored(commitments, k).marketCapThresholdUsd

\* the first run has answered and its response reports the commitment as worked through
FirstRunDid(id) ==
    inv[1].pc = "done" /\ \E r \in inv[1].results : r.id = id /\ r.step = "done"

C6_AfterFirstRun ==
    \A k \in Keys : FirstRunDid(k[1]) =>
            /\ OwnRow(k) <=> Confirmed(Stored(commitments, k))
            /\ ConfirmedBy(inv[1], k) <=> Confirmed(Stored(commitments, k))
            /\ Confirmed(Stored(commitments, k)) => Cardinality(ledgerRows(ledger, k[1], k[2])) = 1

C6_SecondRunStep ==
    /\ (\E id \in CommitmentIds : FirstRunDid(id)) => (ledger' = ledger /\ commitments' = commitments)
    /\ \A k \in Keys :
          Stored(commitments', k) # Stored(commitments, k) =>
              (Stored(commitments, k).status = "locked" /\ Confirmed(Stored(commitments', k)))

C6_ConfirmedOnce == []C6_AfterFirstRun /\ [][C6_SecondRunStep]_vars

\* the second run has worked through the commitment whose first milestone the
\* first run confirmed
C6_Witness ==
    /\ FirstRunDid("c1") /\ inv[2].pc = "finish"
    /\ ConfirmedBy(inv[1], <<"c1", "m1">>)
    /\ Confirmed(Stored(commitments, <<"c1", "m1">>))
    /\ Cardinality(ledgerRows(ledger, "c1", "m1")) = 1
    /\ \E r \in inv[2].results : r.id = "c1" /\ r.step = "done"

----------------------------------------------------------------------------
(* C7  In the second of two immediately successive runs the result list    *)
(* holds, for the milestone the first run confirmed, an entry with         *)
(* confirmed: true and idempotent: true.                                   *)

C7_SecondRunReportsIdempotent ==
    (inv[1].pc = "done" /\ inv[2].pc = "finish") =>
        \A k \in Keys :
            ConfirmedBy(inv[1], k) =>
                \E r \in inv[2].results :
                    r.id = k[1] /\ r.milestoneId = k[2] /\ r.confirmed /\ r.idempotent

(* C7 as the code has it: the second run's result list holds no entry for  *)
(* a milestone the first run confirmed; the guards of lines 366-368 pass   *)
(* over it, or the commitment is no longer a target.                       *)

C7_SecondRunSilent ==
    inv[1].pc = "done" =>
        \A k \in Keys :
            ConfirmedBy(inv[1], k) =>
                \A r \in inv[2].results : ~(r.id = k[1] /\ r.milestoneId = k[2])

\* the second run went through the commitment and reported on its other milestone
C7_Witness ==
    /\ inv[1].pc = "done" /\ inv[2].pc = "finish"
    /\ ConfirmedBy(inv[1], <<"c1", "m1">>)
    /\ \E r \in inv[2].results : r.id = "c1" /\ r.milestoneId = "m2"
    /\ \A r \in inv[2].results : r.milestoneId # "m1"

----------------------------------------------------------------------------
(* C9  A milestone whose completedAtUnix is set when the invocation reads  *)
(* it is not passed to the threshold evaluator and causes no tryAcquire    *)
(* call in that invocation.                                                *)

\* the step is a call of findFirstTokenMarketSnapshotAbovePrice by invocation i
EvaluatorReturns(i) ==
    /\ inv[i].pc = "eval"
    /\ \/ inv'[i].pc = "balance"
       \/ \E r \in inv'[i].results \ inv[i].results : r.note = "threshold_not_hit"

C9_CompletedNotEvaluated ==
    [][\A i \in Slots :
          (EvaluatorReturns(i) \/ AcquireReturns(i)) =>
              Cur(inv[i]).milestones[inv[i].mi].completedAtUnix = Null]_vars

\* an invocation that read the first milestone as completed has passed it and
\* is at the second one
C9_Witness ==
    \E i \in Slots :
        /\ inv[i].pc = "eval" /\ inv[i].mi = 2
        /\ Cur(inv[i]).milestones[1].completedAtUnix # Null

----------------------------------------------------------------------------
(* C10  A winning confirmation with T = min(invocation chain time, hit     *)
(* fetch time) and claim delay D sets claimableAtUnix = T + D and status   *)
(* claimable if the chain time is at least T + D, approved otherwise; with *)
(* D = 48h and chain time T + 10h the result is approved with              *)
(* claimableAtUnix = T + 48h.  No stored milestone is claimable before     *)
(* T + D and none is released.                                             *)

C10_WinnerStep ==
    \A i \in Slots :
        (AcquireReturns(i) /\ inv'[i].pc = "audit") =>
            LET l == inv[i]
                T == Min(l.nowUnix, l.hit.fetchedAtUnix)
                m == inv'[i].milestones[l.mi]
            IN  /\ m.completedAtUnix = T
                /\ m.claimableAtUnix = T + ClaimDelayDefault
                /\ m.status = IF l.nowUnix >= T + ClaimDelayDefault THEN "claimable" ELSE "approved"

C10_Stored ==
    /\ \A k \in Keys :
          /\ Stored(commitments, k).status # "released"
          /\ Stored(commitments, k).status = "claimable" =>
                Stored(commitments, k).autoConfirmedAtUnix >= Stored(commitments, k).completedAtUnix + ClaimDelayDefault
    /\ LET m == confirmedMilestone(InitCommitment.milestones[1], BalanceLow, T0 + 10 * Hour, T0, ClaimDelayDefault)
       IN  m.status = "approved" /\ m.claimableAtUnix = T0 + 48 * Hour

C10_ClaimDelay == []C10_Stored /\ [][C10_WinnerStep]_vars

\* a stored confirmation whose hit was fetched after the confirming
\* invocation read the chain time
C10_Witness ==
    \E k \in Keys :
        /\ Stored(commitments, k).autoConfirmedAtUnix # Null
        /\ Stored(commitments, k).autoEvidenceHitFetchedAtUnix > Stored(commitments, k).autoConfirmedAtUnix
        /\ Stored(commitments, k).status = "approved"

----------------------------------------------------------------------------
(* C11  A milestone the engine left in status approved is moved to         *)
(* claimable by a later evaluation cycle once chain time has reached its   *)
(* claimableAtUnix.                                                        *)

\* the stored milestone is approved and its claim delay has elapsed on chain
ApprovedAndDue(k) ==
    /\ Stored(commitments, k).status = "approved"
    /\ Stored(commitments, k).autoConfirmedAtUnix # Null
    /\ chainTime >= Stored(commitments, k).claimableAtUnix

C11_ApprovedBecomesClaimable ==
    \A k \in Keys : ApprovedAndDue(k) ~> (Stored(commitments, k).status = "claimable")

----------------------------------------------------------------------------
(* C12  Once a canonical pair exists for a (token, chain), no ingestion    *)
(* changes its pairAddress or dexId, whichever candidate is best in the    *)
(* feed and however first-time ingestions race; only its url may change.   *)

C12_OnePin ==
    \A p \in pins, q \in pins : (p.tokenMint = q.tokenMint /\ p.chainId = q.chainId) => p = q

C12_PinKept ==
    \A p \in pins : \E q \in pins' :
        /\ q.tokenMint = p.tokenMint /\ q.chainId = p.chainId
        /\ q.pairAddress = p.pairAddress /\ q.dexId = p.dexId

C12_PinStable == []C12_OnePin /\ [][C12_PinKept]_vars

\* an ingestion that chose another pair than the pinned one has made its upsert
C12_Witness ==
    \E p \in pins : \E i \in Slots :
        /\ inv[i].pc = "insert"
        /\ inv[i].best.tokenMint = p.tokenMint
        /\ inv[i].best.pairAddress # p.pairAddress
        /\ p.url = "uB" /\ p.pairAddress = "pA"

----------------------------------------------------------------------------
(* C13  After a pair has been pinned for a (token, chain), every snapshot  *)
(* that ingestion appends for that token and chain carries the pinned      *)
(* pairAddress, also when the pinned pair is missing from the feed and     *)
(* another candidate meets the liquidity floor.                            *)

C13_SnapshotsOfPinnedPair ==
    \A s \in snapshots : \A p \in pins :
        (s.tokenMint = p.tokenMint /\ s.chainId = p.chainId) => s.pairAddress = p.pairAddress

----------------------------------------------------------------------------
(* C14  The threshold evaluator returns, among the snapshots of the given  *)
(* token, chain and pinned pair with fetch time >= sinceTime, the one with *)
(* the smallest fetch time whose price >= minPrice, liquidity >=           *)
(* minLiquidity and 1-hour volume >= minVolume1h, and none when no         *)
(* snapshot qualifies.  With threshold 1,000,000 and supply 1,000,000,000  *)
(* and prices 0.0008, 0.0009, 0.0012 at increasing times it returns the    *)
(* third.                                                                  *)

C14_CallStep ==
    \A sinceUnix \in EvalSince, thresholdUsd \in EvalThresholds,
       minLiquidityUsd \in EvalLiquidityFloors, minVolumeH1Usd \in EvalVolumeFloors :
        EvaluatorCallWith(1, sinceUnix, thresholdUsd, minLiquidityUsd, minVolumeH1Usd) =>
            LET h == inv'[1].hit
                ok(s) == /\ s.tokenMint = Token /\ s.chainId = ChainId /\ s.pairAddress = "pA"
                         /\ sinceUnix <= s.fetchedAtUnix
                         /\ thresholdUsd * 10 <= s.priceE4 * SupplyUi
                         /\ minLiquidityUsd <= s.liquidityUsd
                         /\ minVolumeH1Usd <= s.volumeH1Usd
            IN  IF \E s \in snapshots : ok(s)
                THEN /\ h \in snapshots /\ ok(h)
                     /\ \A s \in snapshots : ok(s) => h.fetchedAtUnix <= s.fetchedAtUnix
                ELSE h = NoHit

C14_Example ==
    findFirstAbove({Snap("pA", 10, 8, 80000, 10), Snap("pA", 20, 9, 80000, 10), Snap("pA", 30, 12, 80000, 10)},
                   Token, ChainId, "pA", 1, 1000, 1000, MinLiquidityDefault, MinVolumeH1Default)
        = {Snap("pA", 30, 12, 80000, 10)}

C14_FirstQualifying == []C14_Example /\ [][C14_CallStep]_vars

\* the three snapshots of the example are stored with others and the call
\* returned the third
C14_Witness ==
    /\ {Snap("pA", 10, 8, 80000, 10), Snap("pA", 20, 9, 80000, 10), Snap("pA", 30, 12, 80000, 10),
        Snap("pA", 5, 12, 40000, 10), Snap("pB", 3, 12, 80000, 10)} \subseteq snapshots
    /\ inv[1].pc = "done"
    /\ inv[1].hit = Snap("pA", 30, 12, 80000, 10)

----------------------------------------------------------------------------
(* C15  For a milestone with a positive absolute unlock amount and a       *)
(* positive unlock percentage the computed unlock amount is the absolute   *)
(* amount, whatever the total funded amount is.                            *)

\* the step is the return of the balance read and unlock computation to invocation i
BalanceReturns(i) == inv[i].pc = "balance" /\ inv'[i].pc \notin {"balance", "done"}

C15_AbsoluteFirst ==
    [][\A i \in Slots :
          (BalanceReturns(i) /\ CurM(inv[i]).unlockLamports > 0 /\ CurM(inv[i]).unlockPercent > 0) =>
              (inv'[i].pc = "acquire" /\ inv'[i].unlock = CurM(inv[i]).unlockLamports)]_vars

\* the absolute amount was taken although the percentage of the total differs
C15_Witness ==
    \E i \in Slots :
        /\ inv[i].pc = "acquire"
        /\ CurM(inv[i]).unlockLamports > 0 /\ CurM(inv[i]).unlockPercent > 0
        /\ inv[i].unlock = CurM(inv[i]).unlockLamports
        /\ (inv[i].totalFunded * CurM(inv[i]).unlockPercent) \div 100 # inv[i].unlock

----------------------------------------------------------------------------
(* C16  For a milestone with no positive absolute amount and a positive    *)
(* percentage p the unlock amount is floor(totalFunded * p / 100), with    *)
(* totalFunded = max(0, escrow balance + unlock amounts of the released    *)
(* milestones), both read at evaluation time.                              *)

\* unlock amount of the j-th milestone of the invocation's list if it is released
ReleasedAt(l, j) ==
    IF j \in 1..Len(l.milestones) /\ l.milestones[j].status = "released"
    THEN l.milestones[j].unlockLamports ELSE 0

C16_PercentOfTotal ==
    [][\A i \in Slots :
          (BalanceReturns(i) /\ CurM(inv[i]).unlockLamports <= 0 /\ CurM(inv[i]).unlockPercent > 0) =>
              LET l == inv[i]
                  sum == balance + ReleasedAt(l, 1) + ReleasedAt(l, 2)
                  totalFunded == IF sum < 0 THEN 0 ELSE sum
                  p == CurM(l).unlockPercent
              IN  \E u \in 0..totalFunded :
                      /\ u * 100 <= totalFunded * p
                      /\ totalFunded * p < (u + 1) * 100
                      /\ (u > 0) => (inv'[i].pc = "acquire" /\ inv'[i].unlock = u
                                      /\ inv'[i].totalFunded = totalFunded)
                      /\ (u = 0) => inv'[i].pc # "acquire"]_vars

\* a released milestone counts towards the total and the percentage is rounded down
C16_Witness ==
    \E i \in Slots :
        /\ inv[i].pc = "acquire"
        /\ CurM(inv[i]).unlockLamports = 0 /\ CurM(inv[i]).unlockPercent > 0
        /\ ReleasedAt(inv[i], 1) > 0
        /\ inv[i].totalFunded = balance + ReleasedAt(inv[i], 1)
        /\ inv[i].unlock * 100 < inv[i].totalFunded * CurM(inv[i]).unlockPercent

----------------------------------------------------------------------------
(* C20  When the unlock amount computed for a milestone whose threshold    *)
(* was hit is not positive, the engine records the failure 'Invalid unlock *)
(* amount' for it, does not call tryAcquire, and leaves the milestone      *)
(* locked with no completion timestamp.                                    *)

\* neither a positive absolute amount nor a percentage that yields a lamport
UnlockIsZero(l) ==
    LET sum == balance + ReleasedAt(l, 1) + ReleasedAt(l, 2)
        totalFunded == IF sum < 0 THEN 0 ELSE sum
    IN  CurM(l).unlockLamports <= 0 /\ totalFunded * CurM(l).unlockPercent < 100

C20_RefusalStep ==
    \A i \in Slots :
        (BalanceReturns(i) /\ UnlockIsZero(inv[i])) =>
            /\ inv'[i].pc # "acquire"
            /\ inv'[i].milestones = inv[i].milestones
            /\ ledger' = ledger
            /\ \E e \in inv'[i].results \ inv[i].results :
                  /\ e.id = Cur(inv[i]).id /\ e.milestoneId = CurM(inv[i]).id
                  /\ ~e.ok /\ ~e.confirmed /\ e.step = "unlock" /\ e.note = "Invalid unlock amount"

C20_RefusedStaysLocked ==
    \A i \in Slots : \A e \in inv[i].results :
        e.note = "Invalid unlock amount" =>
            /\ Stored(commitments, <<e.id, e.milestoneId>>).status = "locked"
            /\ Stored(commitments, <<e.id, e.milestoneId>>).completedAtUnix = Null
            /\ ledgerRows(ledger, e.id, e.milestoneId) = {}

C20_InvalidUnlockRefused == []C20_RefusedStaysLocked /\ [][C20_RefusalStep]_vars

\* the run has answered with the failure for a milestone whose threshold was hit
C20_Witness ==
    \E i \in Slots : \E e \in inv[i].results :
        /\ inv[i].pc = "done"
        /\ e.note = "Invalid unlock amount" /\ e.milestoneId = "m2"
        /\ \E s \in snapshots : s.priceE4 * SupplyUi >= Stored(commitments, <<e.id, "m2">>).marketCapThresholdUsd * 10

----------------------------------------------------------------------------
(* C17  For a locked market-cap milestone that requires the absence of a   *)
(* mint authority (the default unless its flag is 'false') while the token *)
(* has a mint authority, the engine records ok: true, confirmed: false,    *)
(* reason mint_authority_present, calls neither the evaluator nor          *)
(* tryAcquire for it, and leaves the milestone locked.                     *)

\* the step takes invocation i past the milestone it is at
EvalReturns(i) == inv[i].pc = "eval" /\ inv'[i] # inv[i] /\ inv'[i].pc # "done"

\* the invocation is at a locked market-cap milestone it has to defer
MustDefer(l) ==
    /\ CurM(l).autoKind = "market_cap"
    /\ CurM(l).status = "locked" /\ CurM(l).completedAtUnix = Null
    /\ CurM(l).marketCapThresholdUsd > 0
    /\ CurM(l).requireNoMintAuthority # "false"
    /\ l.authority

Deferred(l, k) ==
    \E e \in l.results : e.id = k[1] /\ e.milestoneId = k[2] /\ e.note = "mint_authority_present"

C17_DeferStep ==
    /\ \A i \in Slots : (EvalReturns(i) /\ MustDefer(inv[i])) =>
          /\ inv'[i].pc \notin {"balance", "acquire", "audit"}
          /\ inv'[i].hit = NoHit
          /\ inv'[i].milestones = inv[i].milestones
          /\ ledger' = ledger
          /\ \E e \in inv'[i].results \ inv[i].results :
                /\ e.id = Cur(inv[i]).id /\ e.milestoneId = CurM(inv[i]).id
                /\ e.ok /\ ~e.confirmed /\ ~e.idempotent /\ e.note = "mint_authority_present"
    /\ \A i \in Slots : \A k \in Keys :
          (CommitReturns(i) /\ Deferred(inv[i], k)) =>
              (Stored(commitments', k).status = "locked" /\ Stored(commitments', k).completedAtUnix = Null)

C17_FlagDefault ==
    /\ \A flag \in {"", "true", "TRUE", "yes"} :
          requireNoMintAuthority([InitCommitment.milestones[1] EXCEPT !.requireNoMintAuthority = flag])
    /\ \A flag \in {"false", "FALSE", "False"} :
          ~requireNoMintAuthority([InitCommitment.milestones[1] EXCEPT !.requireNoMintAuthority = flag])

C17_MintAuthorityDefers == []C17_FlagDefault /\ [][C17_DeferStep]_vars

\* the run has answered with the deferral for a milestone whose threshold the
\* stored snapshots exceed, and the milestone is stored as locked
C17_Witness ==
    \E i \in Slots : \E k \in Keys :
        /\ inv[i].pc = "done" /\ Deferred(inv[i], k)
        /\ mintAuthority
        /\ Stored(commitments, k).status = "locked"
        /\ \E s \in snapshots : s.priceE4 * SupplyUi >= Stored(commitments, k).marketCapThresholdUsd * 10

----------------------------------------------------------------------------
(* C19  When tryAcquire returns an existing record whose tokenMint or      *)
(* thresholdUsd differs from what the caller computed, the caller records  *)
(* the failure 'Existing confirmation mismatch' for the milestone, and     *)
(* neither the ledger record nor the milestone's stored state is changed   *)
(* by that invocation.                                                     *)

\* the ledger holds for the key at hand a row of another token or threshold
RowDiffers(l) ==
    \E ex \in ledgerRows(ledger, Cur(l).id, CurM(l).id) :
        ex.tokenMint # Cur(l).tokenMint \/ ex.thresholdUsd # CurM(l).marketCapThresholdUsd

MismatchReported(l, k) ==
    \E e \in l.results :
        e.id = k[1] /\ e.milestoneId = k[2] /\ e.note = "Existing confirmation mismatch"

C19_MismatchStep ==
    /\ \A i \in Slots : (AcquireReturns(i) /\ RowDiffers(inv[i])) =>
          /\ ledger' = ledger
          /\ inv'[i].milestones = inv[i].milestones
          /\ inv'[i].anyChanged = inv[i].anyChanged
          /\ inv'[i].pc # "audit"
          /\ \E e \in inv'[i].results \ inv[i].results :
                /\ e.id = Cur(inv[i]).id /\ e.milestoneId = CurM(inv[i]).id
                /\ ~e.ok /\ ~e.confirmed /\ ~e.idempotent
                /\ e.step = "confirm" /\ e.note = "Existing confirmation mismatch"
    /\ \A i \in Slots : \A k \in Keys :
          (Running(inv[i]) /\ MismatchReported(inv[i], k) /\ inv'[i] # inv[i]) =>
              /\ Stored(commitments', k) = Stored(commitments, k)
              /\ ledgerRows(ledger', k[1], k[2]) = ledgerRows(ledger, k[1], k[2])

C19_MismatchSurfaced == [][C19_MismatchStep]_vars

\* the invocation confirmed and stored the first milestone, reported the
\* mismatch for the second and has answered
C19_Witness ==
    \E i \in Slots :
        /\ inv[i].pc = "done"
        /\ MismatchReported(inv[i], <<"c1", "m2">>)
        /\ ConfirmedBy(inv[i], <<"c1", "m1">>)
        /\ Confirmed(Stored(commitments, <<"c1", "m1">>))
        /\ Stored(commitments, <<"c1", "m2">>).status = "locked"
        /\ StaleRow \in ledger

----------------------------------------------------------------------------
(* C18  A failure while processing one commitment (feed unreachable, no    *)
(* suitable pair, invalid pair, invalid price, mint not found, chain read  *)
(* failure) is recorded as a failure entry for that commitment and does    *)
(* not stop the batch: the invocation ends with a result list that covers  *)
(* every target commitment.                                                *)

\* the step ends invocation i: its response is sent
Responds(i) == Running(inv[i]) /\ inv'[i].pc = "done"

C18_BatchCoversAllTargets ==
    [][\A i \in Slots : Responds(i) =>
          \A j \in 1..Len(inv[i].targets) :
              \E e \in inv'[i].results : e.id = inv[i].targets[j].id]_vars

----------------------------------------------------------------------------
(* C21 *)

\* the answer of the feature gate: an error, nothing read into the invocation
GateAnswer(l) ==
    /\ l.pc = "done"
    /\ l.error = "Market cap milestones are disabled"
    /\ l.targets = <<>> /\ l.nowUnix = Null /\ l.results = {}

\* the deployments whose flag text is none of 1, true, yes, on (in any case, blanks around it)
FlagOff(e) == e.CTS_ENABLE_MARKETCAP_MILESTONES \in {"", "0", "off"}

\* C21: while the feature flag is not enabled, every step of an invocation is
\* the gate's error answer: the invocation has read no commitment and no chain
\* time, never reaches the feed or the chain steps, and the snapshot store, the
\* pin store, the ledger, the audit of confirmations and every commitment are
\* left as they were.
C21_DisabledDoesNothing ==
    [][FlagOff(env) =>
          /\ UNCHANGED <<commitments, pins, snapshots, ledger, audit>>
          /\ \A i \in Slots :
                /\ ~Running(inv'[i])
                /\ (inv[i].pc = "idle" /\ inv'[i].pc # "idle") => GateAnswer(inv'[i])]_vars

C21_Witness ==
    /\ FlagOff(env)
    /\ GateAnswer(inv[1])
    /\ isTarget(commitments["c1"], "")
    /\ feed # <<>>

----------------------------------------------------------------------------
(* C22 *)

\* a numeric variable holds a text that is no number or is out of its range
InvalidConfig(e) ==
    \/ e.REWARD_CLAIM_DELAY_SECONDS \in {"abc", "-1"}
    \/ e.CTS_MC_MIN_LIQUIDITY_USD \in {"abc", "-1", "0"}
    \/ e.CTS_MC_MIN_VOLUME_H1_USD \in {"abc", "-1"}
    \/ e.CTS_MC_LOOKBACK_SECONDS \in {"abc", "-1", "0"}

\* C22: under a deployment with an invalid numeric configuration value no
\* invocation processes a commitment: it is never past its start, and its
\* answer is an error.
C22_InvalidConfigAborts ==
    InvalidConfig(env) =>
        \A i \in Slots :
            /\ ~Running(inv[i])
            /\ inv[i].pc = "done" => (inv[i].error # "" /\ inv[i].results = {})

----------------------------------------------------------------------------
(* C23 *)

\* the commitment the invocation is committing
CommitTarget(l) == l.targets[l.ci].id

\* C23: every commit of the engine (the update of lines 523-529) leaves the
\* stored status of the commitment as it is or changes it from created to
\* active, also when an administrative update was stored after the engine read
\* the commitment; in particular no engine write stores failed or archived
\* over another status.
C23_EngineKeepsStatus ==
    [][\A i \in Slots : (CommitReturns(i) /\ inv[i].anyChanged) =>
          LET old == commitments[CommitTarget(inv[i])].status
              new == commitments'[CommitTarget(inv[i])].status
          IN  new = old \/ (old = "created" /\ new = "active")]_vars

----------------------------------------------------------------------------
(* C24 *)

\* the call of line 494 is over and the sink holds no new record
AuditFailed(i) == inv[i].pc = "audit" /\ inv'[i].pc # "audit" /\ audit' = audit

\* C24: when the audit sink fails while recording marketcap_milestone_confirmed
\* for a milestone whose tryAcquire the invocation won, the invocation goes on
\* with the transition in hand (towards the commit of lines 516-529), so the
\* milestone transition and the totals are still committed.
C24_AuditFailureKeepsCommit ==
    [][\A i \in Slots : AuditFailed(i) =>
          /\ inv'[i].pc \in {"eval", "commit"}
          /\ inv'[i].anyChanged
          /\ inv'[i].milestones = inv[i].milestones]_vars

----------------------------------------------------------------------------
(* C25 *)

\* the fields fixed at creation
Identity(c) == <<c.authority, c.escrowPubkey, c.tokenMint>>

\* C25: no step of an orchestrator invocation and no admin update request
\* changes the authority, the escrow address or the token identifier of a
\* stored commitment.
C25_IdentityFixed ==
    [][\A id \in DOMAIN commitments :
          id \in DOMAIN commitments' /\ Identity(commitments'[id]) = Identity(commitments[id])]_vars

\* the engine has committed a confirmation and the administrator has updated
\* the same commitment
C25_Witness ==
    /\ \E k \in Keys : k[1] = "c1" /\ Confirmed(Stored(commitments, k))
    /\ [event |-> "admin_commitment_update_ok", commitmentId |-> "c1", milestoneId |-> ""] \in audit
    /\ commitments["c1"].creatorFeeMode = "assisted"
    /\ commitments["c1"].status = "archived"

----------------------------------------------------------------------------
(* C26 *)

\* the invocation won a tryAcquire for a milestone of the commitment (line 513)
WonFor(l, id) ==
    \E r \in l.results : r.id = id /\ r.step = "confirm" /\ r.confirmed /\ ~r.idempotent

\* the invocation is past its commit step for the commitment (line 534)
CommittedFor(l, id) == \E r \in l.results : r.id = id /\ r.step = "done"

\* C26: every change of the commitment store is the commit step of one
\* invocation for the commitment it is processing: only that record changes,
\* the invocation has won at least one tryAcquire for that commitment (so an
\* invocation that confirmed nothing writes nothing), and it has not been at
\* the commit step of that commitment before (at most one write per commitment
\* and invocation).
C26_OneWritePerWinner ==
    [][commitments' # commitments =>
          \E i \in Slots :
              /\ CommitReturns(i)
              /\ \A id \in DOMAIN commitments :
                    id # CommitTarget(inv[i]) => commitments'[id] = commitments[id]
              /\ WonFor(inv[i], CommitTarget(inv[i]))
              /\ inv[i].confirmedCount > 0
              /\ ~CommittedFor(inv[i], CommitTarget(inv[i]))]_vars

\* one invocation went through both commitments, confirmed nothing for c1 and
\* wrote nothing there, and committed a confirmation for c2
C26_Witness ==
    /\ inv[1].pc = "done"
    /\ CommittedFor(inv[1], "c1") /\ CommittedFor(inv[1], "c2")
    /\ ~WonFor(inv[1], "c1") /\ WonFor(inv[1], "c2")
    /\ commitments["c1"] = InitCommitment
    /\ \E j \in 1..Len(commitments["c2"].milestones) : Confirmed(commitments["c2"].milestones[j])

----------------------------------------------------------------------------
(* C27 *)

\* the audit record of the confirmation of key k (lines 494-511)
AuditRec(k) ==
    [event |-> "marketcap_milestone_confirmed", commitmentId |-> k[1], milestoneId |-> k[2]]

\* the ledger accepted a row for key k in some invocation of the behaviour
Accepted(l, k) == ledgerRows(l, k[1], k[2]) \ {StaleRow} # {}

\* invocation i is between its won tryAcquire and its audit call for key k
AuditPending(l, k) == l.pc = "audit" /\ AtKey(l) = k

\* the step is the return of the audit call of line 494 to invocation i
AuditReturns(i) == inv[i].pc = "audit" /\ inv'[i].pc \notin {"audit", "done"}

FinishReturns(i) == inv[i].pc = "finish" /\ inv'[i].pc = "done"

\* C27: the audit sink holds a marketcap_milestone_confirmed record for a key
\* only if the ledger accepted a row for it; the record is added by the
\* invocation that won the tryAcquire of that key, once (the audit call of a
\* winner always adds a record that was not there); every accepted row has its
\* record as soon as no invocation stands between the won tryAcquire and the
\* audit call for it, so losers and skipped milestones add none; and the
\* confirmedCount an invocation returns is the number of tryAcquire calls it won.
C27_OneAuditPerRow ==
    [][ /\ \A k \in Keys :
              /\ AuditRec(k) \in audit' => Accepted(ledger', k)
              /\ (AuditRec(k) \in audit' /\ AuditRec(k) \notin audit) =>
                     \E i \in Slots : AuditPending(inv[i], k) /\ AuditReturns(i)
              /\ (Accepted(ledger', k) /\ \A i \in Slots : ~AuditPending(inv'[i], k)) =>
                     AuditRec(k) \in audit'
        /\ \A i \in Slots :
              /\ AuditReturns(i) => AuditRec(AtKey(inv[i])) \in audit' \ audit
              /\ FinishReturns(i) =>
                     inv[i].confirmedCount =
                        Cardinality({ r \in inv[i].results : r.step = "confirm" /\ r.confirmed /\ ~r.idempotent }) ]_vars

----------------------------------------------------------------------------
(* C28 *)

\* the unlock amounts of the first n milestones that are claimable or released
RECURSIVE UnlockedUpTo(_, _)
UnlockedUpTo(ms, n) ==
    IF n = 0 THEN 0
    ELSE UnlockedUpTo(ms, n - 1)
         + (CASE ms[n].status = "claimable" -> ms[n].unlockLamports
              [] ms[n].status = "released" -> ms[n].unlockLamports
              [] ms[n].status = "locked" -> 0
              [] ms[n].status = "approved" -> 0)

\* C28: after a commit of the engine the stored unlocked amount of the
\* commitment is the sum of the unlock amounts of the milestones that are
\* claimable or released in the milestone list stored by that commit; locked
\* and approved milestones contribute nothing.
C28_UnlockedIsSum ==
    [][\A i \in Slots : (CommitReturns(i) /\ commitments' # commitments) =>
          LET c == commitments'[CommitTarget(inv[i])]
          IN  c.unlockedLamports = UnlockedUpTo(c.milestones, Len(c.milestones))]_vars

\* a commit stored a claimable milestone, whose amount is the unlocked total,
\* next to a milestone that is still locked
C28_Witness ==
    \E j, n \in 1..Len(commitments["c1"].milestones) :
        LET c == commitments["c1"] IN
        /\ c.milestones[j].status = "claimable" /\ c.milestones[j].autoConfirmedAtUnix # Null
        /\ c.milestones[n].status = "locked"
        /\ c.milestones[j].unlockLamports > 0
        /\ c.unlockedLamports = c.milestones[j].unlockLamports

----------------------------------------------------------------------------
(* C29 *)

\* the step abandons the commitment at the ingest, canonical or mint step
\* (lines 330-333, 336-339, 342-345)
AbandonedAt(i, steps) ==
    /\ inv[i].pc \in {"ingest", "chain"}
    /\ \E r \in inv'[i].results \ inv[i].results : r.id = Cur(inv[i]).id /\ r.step \in steps /\ ~r.ok

\* the stores hold a row that ingestion must refuse: no pair address, no dex, no price
RefusedRowStored(ps, snaps) ==
    \/ \E p \in ps : p.pairAddress = "" \/ p.dexId = ""
    \/ \E sn \in snaps : sn.pairAddress = "" \/ sn.dexId = "" \/ sn.priceE4 <= 0

\* C29: when an invocation abandons a commitment at the ingest, canonical or
\* mint step, the stored commitment is still the record the invocation read
\* (milestones included) and the ledger holds no row of that commitment; when
\* the ingestion fails (no suitable pair, invalid pair, invalid price) the step
\* writes no pin and appends no snapshot, so the stores never hold a row of a
\* refused pair.
C29_AbandonLeavesNothing ==
    [][ /\ \A i \in Slots :
              /\ AbandonedAt(i, {"ingest", "canonical", "mint"}) =>
                    /\ commitments'[Cur(inv[i]).id] = Cur(inv[i])
                    /\ \A r \in ledger' : r.commitmentId # Cur(inv[i]).id
              /\ AbandonedAt(i, {"ingest"}) => (pins' = pins /\ snapshots' = snapshots)
        /\ ~RefusedRowStored(pins', snapshots') ]_vars

\* one invocation confirmed a milestone of c1 and then abandoned c2 at
\* ingestion because the feed listed a pair without a dex or without a price
C29_Witness ==
    /\ inv[1].pc = "done"
    /\ \E r \in inv[1].results :
          r.id = "c2" /\ r.step = "ingest" /\ r.note \in {"Invalid pair", "Invalid price"}
    /\ WonFor(inv[1], "c1")
    /\ \A j \in 1..Len(commitments["c2"].milestones) : commitments["c2"].milestones[j].status = "locked"
    /\ \A r \in ledger : r.commitmentId # "c2"

----------------------------------------------------------------------------
(* C30 *)

\* the commitment is of kind creator_reward, has a token and a market-cap
\* milestone that is locked and has no completion timestamp
Eligible(c) ==
    /\ c.kind = "creator_reward"
    /\ c.tokenMint # ""
    /\ \E j \in 1..Len(c.milestones) :
          /\ c.milestones[j].autoKind = "market_cap"
          /\ c.milestones[j].status = "locked"
          /\ c.milestones[j].completedAtUnix = Null

C30_StartStep ==
    \A commitmentIdFilter \in TargetFilters, limit \in TargetLimits :
        StartWith(1, commitmentIdFilter, limit) =>
            LET t == inv'[1].targets IN
            /\ \A j \in 1..Len(t) :
                  /\ t[j].id \in DOMAIN commitments /\ t[j] = commitments[t[j].id]
                  /\ Eligible(t[j])
                  /\ commitmentIdFilter # "" => t[j].id = commitmentIdFilter
                  /\ \A n \in 1..Len(t) : t[n].id = t[j].id => n = j
            /\ limit > 0 => (Len(t) * 10 <= limit /\ Len(t) <= 200)

\* the commitment loop works on a target of the invocation only
C30_WorkStep ==
    \A id \in DOMAIN commitments :
        (commitments'[id] # commitments[id] \/ \E r \in ledger' \ ledger : r.commitmentId = id) =>
            \E j \in 1..Len(inv[1].targets) : inv[1].targets[j].id = id

\* the cap on batches around the hard maximum: 199 to 250 targets
C30_Clamp ==
    \A n \in {199, 200, 201, 250}, limit \in {5, 10, 1990, 1999, 2000, 2005, 2010, 3000} :
        LET t == capTargets([k \in 1..n |-> k], limit)
        IN  /\ Len(t) * 10 <= limit /\ Len(t) <= 200 /\ Len(t) <= n
            /\ \A j \in 1..Len(t) : t[j] = j

\* C30: the targets of an invocation are stored commitments of kind
\* creator_reward that have a token and at least one market-cap milestone that
\* is locked with no completion timestamp, each at most once, and the
\* invocation writes the record and the ledger of its targets only; with a
\* commitment id in the request the targets are at most that commitment; with
\* a positive limit there are at most min(200, floor(limit)) targets.
C30_OnlyTargets == []C30_Clamp /\ [][C30_StartStep /\ C30_WorkStep]_vars

\* a request with limit 1.5 and no commitment id, two eligible commitments
\* stored: the invocation took the first one only
C30_Witness ==
    /\ Eligible(commitments["c1"]) /\ Eligible(commitments["c2"])
    /\ inv[1].pc = "ingest" /\ inv[1].ci = 1
    /\ Len(inv[1].targets) = 1 /\ inv[1].targets[1].id = "c1"

----------------------------------------------------------------------------
(* C31 *)

\* the request carries the configured, non-empty cron secret
CarriesSecret(e, header) == e.CRON_SECRET = "s3" /\ header \in {"s3", " s3 "}

\* every store but the audit sink
Stores == <<commitments, pins, snapshots, ledger>>

C31_ResolveStep ==
    \A header \in Headers, originOk \in BOOLEAN, admin \in BOOLEAN :
        (ResolveRequestWith(1, header, originOk, admin) /\ ~CarriesSecret(env, header) /\ ~admin) =>
            /\ UNCHANGED Stores
            /\ inv'[1].pc = "done" /\ inv'[1].error # "" /\ inv'[1].targets = <<>>

C31_AdminStep ==
    \A header \in Headers, originOk \in BOOLEAN, admin \in BOOLEAN, status \in AuthStatuses :
        (AdminRequestWith(header, originOk, admin, "c1", status, "")
            /\ ~CarriesSecret(env, header) /\ ~admin) =>
            /\ UNCHANGED Stores
            /\ Event("admin_commitment_update_ok") \notin audit' \ audit
            /\ \A x \in audit' \ audit : x.event \in {"admin_commitment_update_denied", "admin_commitment_update_error"}

C31_NoSecretNoCron ==
    env.CRON_SECRET \in {"", " "} => \A header \in Headers : ~isCronAuthorized(env, header)

\* C31: a request that neither carries the configured non-empty cron secret
\* nor is allowed by the admin oracle changes no commitment, milestone, ledger
\* record, pin or snapshot, in the resolve route (it is answered with an error
\* and starts no invocation) and in the admin update route; with no cron
\* secret configured no request is cron-authorized.
C31_UnauthorizedChangesNothing ==
    []C31_NoSecretNoCron /\ [][C31_ResolveStep /\ C31_AdminStep]_vars

\* no cron secret is configured: a request with an empty header and no admin
\* session was denied by both routes, while a target and a qualifying feed exist
C31_Witness ==
    /\ env.CRON_SECRET = ""
    /\ Event("admin_resolve_marketcap_denied") \in audit
    /\ Event("admin_commitment_update_denied") \in audit
    /\ inv[1].pc = "done" /\ inv[1].error = "Unauthorized"
    /\ commitments["c1"] = InitCommitment /\ ledger = {} /\ pins = {} /\ snapshots = {}

----------------------------------------------------------------------------
(* C32 *)

\* the eight values of a commitment status
EightStatuses ==
    {"created", "active", "resolving", "resolved_success", "resolved_failure", "completed", "failed", "archived"}

C32_RequestStep ==
    \A header \in AdminHeaders, originOk \in BOOLEAN, admin \in BOOLEAN,
       id \in AdminRequestIds, status \in AdminStatuses, creatorFeeMode \in AdminFeeModes :
        AdminRequestWith(header, originOk, admin, id, status, creatorFeeMode) =>
            IF /\ (CarriesSecret(env, header) \/ (originOk /\ admin))
               /\ id # "" /\ id \in DOMAIN commitments
               /\ (status = "" \/ status \in EightStatuses)
            THEN \A c \in DOMAIN commitments :
                    /\ c # id => commitments'[c] = commitments[c]
                    /\ status # "" /\ commitments'[c] # commitments[c] => commitments'[c].status = status
            ELSE /\ commitments' = commitments
                 /\ \A x \in audit' \ audit : x.event # "admin_commitment_update_ok"

C32_StatusValid == \A c \in DOMAIN commitments : commitments[c].status \in EightStatuses

\* C32: a request to the admin update route changes a commitment only when it
\* is authorized, its id is non-empty and names a stored commitment, and its
\* status, if given, is one of the eight status values; any other request
\* leaves every commitment as it is and records no successful update; hence
\* every stored commitment status is one of the eight values.
C32_AdminUpdateValidated == []C32_StatusValid /\ [][C32_RequestStep]_vars

\* an authorized request archived c1 and set its fee mode, and requests with
\* an unknown status, without authorization or for an unknown id were answered
C32_Witness ==
    /\ commitments["c1"].status = "archived"
    /\ commitments["c1"].creatorFeeMode = "assisted"
    /\ [event |-> "admin_commitment_update_ok", commitmentId |-> "c1", milestoneId |-> ""] \in audit
    /\ Event("admin_commitment_update_denied") \in audit

----------------------------------------------------------------------------
(* C33 *)

\* the timestamps of a milestone the engine confirmed
TimestampsConsistent(m, claimDelaySeconds) ==
    /\ m.completedAtUnix # Null
    /\ m.completedAtUnix <= m.autoConfirmedAtUnix
    /\ m.approvedAtUnix = m.completedAtUnix
    /\ m.claimableAtUnix = m.completedAtUnix + claimDelaySeconds
    /\ m.status = "claimable" => m.becameClaimableAtUnix # Null
    /\ m.status \in {"approved", "claimable"}

\* C33: every milestone confirmed by the engine, stored or still in the hands
\* of the confirming invocation, has completedAtUnix <= autoConfirmedAtUnix
\* (the chain time of the invocation), approvedAtUnix = completedAtUnix,
\* claimableAtUnix = completedAtUnix + claim delay, and becameClaimableAtUnix
\* set whenever its status was written as claimable.
C33_TimestampsConsistent ==
    /\ \A k \in Keys :
          Stored(commitments, k).autoConfirmedAtUnix # Null =>
              TimestampsConsistent(Stored(commitments, k), getClaimDelaySeconds(env))
    /\ \A i \in Slots : \A j \in 1..Len(inv[i].milestones) :
          inv[i].milestones[j].autoConfirmedAtUnix # Null =>
              /\ TimestampsConsistent(inv[i].milestones[j], getClaimDelaySeconds(env))
              /\ inv[i].milestones[j].autoConfirmedAtUnix <= chainTime

\* a stored milestone confirmed as claimable one claim delay after its hit
C33_Witness ==
    \E k \in Keys :
        LET m == Stored(commitments, k) IN
        /\ m.autoConfirmedAtUnix = T0 + ClaimDelayDefault
        /\ m.completedAtUnix = T0
        /\ m.status = "claimable"
        /\ m.becameClaimableAtUnix = m.autoConfirmedAtUnix

----------------------------------------------------------------------------
(* C34 *)

\* the ledger record of key k agrees with the stored milestone and commitment
RowAgrees(r, k) ==
    /\ r.unlockLamports = Stored(commitments, k).unlockLamports
    /\ r.thresholdUsd = Stored(commitments, k).marketCapThresholdUsd
    /\ r.tokenMint = commitments[k[1]].tokenMint

\* C34: for every milestone whose engine transition is stored, the ledger
\* holds one record for its (commitment, milestone); the unlockLamports of
\* that record is the stored unlock amount of the milestone, and its
\* thresholdUsd and tokenMint are the milestone's threshold and the
\* commitment's token.
C34_LedgerMatchesMilestone ==
    \A k \in Keys :
        Stored(commitments, k).autoConfirmedAtUnix # Null =>
            /\ Cardinality(ledgerRows(ledger, k[1], k[2])) = 1
            /\ \A r \in ledgerRows(ledger, k[1], k[2]) : RowAgrees(r, k)

\* the percentage milestone m1 is stored as confirmed with the amount of its
\* ledger record, next to the record of another definition of m2
C34_Witness ==
    /\ Stored(commitments, <<"c1", "m1">>).autoConfirmedAtUnix # Null
    /\ Stored(commitments, <<"c1", "m1">>).unlockLamports = BalanceHigh \div 2
    /\ \E r \in ledgerRows(ledger, "c1", "m1") : r.unlockLamports = BalanceHigh \div 2
    /\ StaleRow \in ledger

----------------------------------------------------------------------------
(* C35 *)

\* the store holds a snapshot of the pinned pair, stamped with the chain time
\* of the invocation, that meets the price floor of milestone m and the
\* liquidity and volume floors
OwnSnapshotQualifies(l, m) ==
    \E sn \in snapshots :
        /\ sn.tokenMint = Cur(l).tokenMint /\ sn.chainId = ChainId
        /\ sn.pairAddress = l.canonical.pairAddress
        /\ sn.fetchedAtUnix = l.nowUnix
        /\ sn.priceE4 * SupplyUi >= m.marketCapThresholdUsd * 10
        /\ sn.liquidityUsd >= getMinLiquidityUsd(env)
        /\ sn.volumeH1Usd >= getMinVolumeH1Usd(env)

\* the milestone is open for evaluation and passes the mint-authority check
PassesGuards(l, m) ==
    /\ m.autoKind = "market_cap" /\ m.status = "locked" /\ m.completedAtUnix = Null
    /\ m.marketCapThresholdUsd > 0
    /\ ~(m.requireNoMintAuthority # "false" /\ l.authority)

\* C35: when the snapshot an invocation ingested for the pinned pair meets the
\* price floor of an open milestone and the liquidity and 1-hour volume
\* floors, and the milestone passes the mint-authority check, the evaluator
\* call of the same invocation returns a hit; and when the unlock amount of
\* that milestone is valid the invocation goes on to tryAcquire for it.
C35_OwnSnapshotHits ==
    [][\A i \in Slots :
          /\ (EvalReturns(i) /\ PassesGuards(inv[i], CurM(inv[i]))
                 /\ OwnSnapshotQualifies(inv[i], CurM(inv[i]))) =>
                /\ inv'[i].pc = "balance" /\ inv'[i].mi = inv[i].mi
                /\ inv'[i].hit \in snapshots
                /\ inv'[i].hit.fetchedAtUnix <= inv[i].nowUnix
          /\ (BalanceReturns(i) /\ inv'[i].unlock > 0) =>
                (inv'[i].pc = "acquire" /\ inv'[i].mi = inv[i].mi)
          /\ (BalanceReturns(i) /\ inv'[i].pc # "acquire") =>
                \E r \in inv'[i].results \ inv[i].results : r.step = "unlock" ]_vars

\* the invocation is about to call tryAcquire with the snapshot it ingested
\* itself as the hit
C35_Witness ==
    \E i \in Slots :
        /\ inv[i].pc = "acquire"
        /\ inv[i].hit.fetchedAtUnix = inv[i].nowUnix
        /\ inv[i].hit.pairAddress = inv[i].canonical.pairAddress
        /\ inv[i].unlock > 0

-----------------------------------------------------------------------------
\* The launch route (src/app/api/launch/route.ts, POST)

\* the identifiers a launch request draws: commitment id (line 206), mint
\* keypair (line 185), Privy wallet (lines 139-141), transaction signatures
LaunchIds == <<"L1", "L2">>
LaunchMints == <<"M1", "M2">>
LaunchWallets == <<"w1", "w2">>
LaunchSigs == <<"sig1", "sig2">>

\* lines 58-66: the locals of a request; steps lists the calls of lines
\* 211-277 that returned, lost the audit events the sink did not store
LaunchIdle ==
    [pc |-> "idle", stage |-> "init", walletId |-> "", creatorWalletAddress |-> "",
     creatorPubkey |-> FALSE, funded |-> FALSE, fundSignature |-> "",
     commitmentId |-> "", tokenMint |-> "", launchTxSig |-> "",
     refunds |-> 0, refundOk |-> FALSE, steps |-> <<>>, lost |-> {},
     error |-> "", status |-> 0]

\* what one call of the audit sink does with the record
SinkOutcomes == {"stored", "dropped", "rejects"}

\* an audit record of the launch route
LaunchEvent(name, l, ok) ==
    [event |-> name, commitmentId |-> l.commitmentId, tokenMint |-> l.tokenMint,
     walletId |-> l.walletId, launchTxSig |-> l.launchTxSig, ok |-> ok]

\* the audit log after auditLog(rec) with outcome o
auditLogged(a, rec, o) == IF o = "stored" THEN a \cup {rec} ELSE a

\* the events of the request that the sink did not store
auditLost(l, name, o) == IF o = "stored" THEN l.lost ELSE l.lost \cup {name}

\* an exception inside the try block: control moves to the catch of line 320
Thrown(l) == [l EXCEPT !.pc = "catch", !.error = "error"]

\* the request has answered
Responded(l, status) == [l EXCEPT !.pc = "done", !.status = status]

\* an exception that leaves the handler (thrown inside the catch block)
Unhandled(l) == [l EXCEPT !.pc = "done", !.status = 500, !.error = "unhandled"]

\* lines 139-142: the wallet created for the request
WithWallet(l, i) ==
    [l EXCEPT !.walletId = LaunchWallets[i], !.creatorWalletAddress = LaunchWallets[i],
              !.creatorPubkey = TRUE]

PrepareOutcomes ==
    {"rate_limited", "origin", "denied", "bad_request", "create_wallet",
     "fetch_image", "build_tx", "ok"}

\* lines 69-207: rate limit, admin check, body, wallet, metadata, transaction
LaunchPrepareWith(i, outcome, o) ==
    /\ inv[i].pc = "idle"
    /\ LET l == inv[i]
       IN  /\ inv' = [inv EXCEPT ![i] =
                CASE outcome = "rate_limited" -> Responded(l, 429)
                  [] outcome = "origin" -> Thrown(l)
                  [] outcome = "denied" ->
                        IF o = "rejects" THEN Thrown(l)
                        ELSE Responded([l EXCEPT !.lost = auditLost(l, "admin_launch_denied", o)], 401)
                  [] outcome = "bad_request" -> Responded([l EXCEPT !.stage = "read_body"], 400)
                  [] outcome = "create_wallet" -> Thrown([l EXCEPT !.stage = "create_wallet"])
                  [] outcome = "fetch_image" ->
                        Responded([WithWallet(l, i) EXCEPT !.stage = "fetch_image"], 400)
                  [] outcome = "build_tx" -> Thrown([WithWallet(l, i) EXCEPT !.stage = "build_tx"])
                  [] OTHER ->
                        [WithWallet(l, i) EXCEPT !.stage = "build_tx", !.pc = "attempt",
                                                 !.commitmentId = LaunchIds[i],
                                                 !.tokenMint = LaunchMints[i]]]
           /\ audit' = IF outcome = "denied"
                       THEN auditLogged(audit, LaunchEvent("admin_launch_denied", l, FALSE), o)
                       ELSE audit
    /\ UNCHANGED <<commitments, pins, snapshots, ledger, chainTime, feed, balance, mintAuthority, env>>

LaunchPrepare(i) ==
    \E outcome \in PrepareOutcomes : \E o \in SinkOutcomes :
        /\ (outcome # "denied" => o = "stored")
        /\ LaunchPrepareWith(i, outcome, o)

\* lines 210-219: the launch_attempt audit record
AuditAttempt(i) ==
    /\ inv[i].pc = "attempt"
    /\ \E o \in SinkOutcomes :
         LET l == [inv[i] EXCEPT !.stage = "audit_attempt"]
         IN  /\ audit' = auditLogged(audit, LaunchEvent("launch_attempt", l, TRUE), o)
             /\ inv' = [inv EXCEPT ![i] =
                  IF o = "rejects" THEN Thrown(l)
                  ELSE [l EXCEPT !.pc = "fund", !.steps = Append(l.steps, "launch_attempt"),
                                 !.lost = auditLost(l, "launch_attempt", o)]]
    /\ UNCHANGED <<commitments, pins, snapshots, ledger, chainTime, feed, balance, mintAuthority, env>>

FundOutcomes == {"ok", "failed", "throws"}

\* lines 221-230: privyFundWalletFromFeePayer and its result
FundWallet(i) ==
    /\ inv[i].pc = "fund"
    /\ \E outcome \in FundOutcomes : \E o \in SinkOutcomes :
         LET l == [inv[i] EXCEPT !.stage = "fund_wallet"]
         IN  /\ (outcome # "failed" => o = "stored")
             /\ inv' = [inv EXCEPT ![i] =
                  CASE outcome = "throws" -> Thrown(l)
                    [] outcome = "failed" ->
                          IF o = "rejects" THEN Thrown(l)
                          ELSE Responded([l EXCEPT !.lost = auditLost(l, "launch_funding_failed", o)], 500)
                    [] OTHER ->
                          [l EXCEPT !.funded = TRUE, !.fundSignature = "fund",
                                    !.pc = "funded", !.steps = Append(l.steps, "fund")]]
             /\ audit' = IF outcome = "failed"
                         THEN auditLogged(audit, LaunchEvent("launch_funding_failed", l, FALSE), o)
                         ELSE audit
    /\ UNCHANGED <<commitments, pins, snapshots, ledger, chainTime, feed, balance, mintAuthority, env>>

\* line 231: the launch_funding_success audit record
AuditFunding(i) ==
    /\ inv[i].pc = "funded"
    /\ \E o \in SinkOutcomes :
         LET l == inv[i]
         IN  /\ audit' = auditLogged(audit, LaunchEvent("launch_funding_success", l, TRUE), o)
             /\ inv' = [inv EXCEPT ![i] =
                  IF o = "rejects" THEN Thrown(l)
                  ELSE [l EXCEPT !.pc = "send",
                                 !.lost = auditLost(l, "launch_funding_success", o)]]
    /\ UNCHANGED <<commitments, pins, snapshots, ledger, chainTime, feed, balance, mintAuthority, env>>

SendOutcomes == {"sent", "serialize", "throws"}

\* lines 234-242: serialize, privySignAndSendSolanaTransaction
SendTx(i) ==
    /\ inv[i].pc = "send"
    /\ \E outcome \in SendOutcomes :
         LET l == inv[i]
         IN  inv' = [inv EXCEPT ![i] =
                CASE outcome = "serialize" -> Thrown(l)
                  [] outcome = "throws" -> Thrown([l EXCEPT !.stage = "send_tx"])
                  [] OTHER ->
                        [l EXCEPT !.stage = "send_tx", !.launchTxSig = LaunchSigs[i],
                                  !.pc = "confirm", !.steps = Append(l.steps, "send")]]
    /\ UNCHANGED <<commitments, pins, snapshots, ledger, audit, chainTime, feed, balance, mintAuthority, env>>

\* lines 244-250: confirmTransactionSignature returns, or throws
confirmedLaunch(l, confirmed) ==
    IF confirmed THEN [l EXCEPT !.pc = "onchain", !.steps = Append(l.steps, "confirm")]
    ELSE Thrown(l)

ConfirmTx(i) ==
    /\ inv[i].pc = "confirm"
    /\ \E confirmed \in BOOLEAN :
         inv' = [inv EXCEPT ![i] = confirmedLaunch([inv[i] EXCEPT !.stage = "confirm_tx"], confirmed)]
    /\ UNCHANGED <<commitments, pins, snapshots, ledger, audit, chainTime, feed, balance, mintAuthority, env>>

\* lines 253-257: the launch_onchain_success audit record
AuditOnchain(i) ==
    /\ inv[i].pc = "onchain"
    /\ \E o \in SinkOutcomes :
         LET l == inv[i]
         IN  /\ audit' = auditLogged(audit, LaunchEvent("launch_onchain_success", l, TRUE), o)
             /\ inv' = [inv EXCEPT ![i] =
                  IF o = "rejects" THEN Thrown(l)
                  ELSE [l EXCEPT !.pc = "insert",
                                 !.lost = auditLost(l, "launch_onchain_success", o)]]
    /\ UNCHANGED <<commitments, pins, snapshots, ledger, chainTime, feed, balance, mintAuthority, env>>

\* lines 260-275: the record of the launched commitment
LaunchRecord(l) ==
    [id |-> l.commitmentId, tokenMint |-> l.tokenMint, authority |-> l.creatorWalletAddress,
     escrowPubkey |-> l.creatorWalletAddress, escrowSecretKeyB58 |-> l.walletId,
     creatorFeeMode |-> "managed", milestones |-> <<>>]

\* insertCommitment of the store
insertCommitment(c, record) ==
    [id \in DOMAIN c \cup {record.id} |-> IF id = record.id THEN record ELSE c[id]]

\* line 277: insertCommitment stores the record, or throws
InsertCommitment(i) ==
    /\ inv[i].pc = "insert"
    /\ \E stored \in BOOLEAN :
         LET l == inv[i]
         IN  /\ commitments' = IF stored THEN insertCommitment(commitments, LaunchRecord(l))
                               ELSE commitments
             /\ inv' = [inv EXCEPT ![i] =
                  IF stored THEN [l EXCEPT !.pc = "profile", !.steps = Append(l.steps, "insert")]
                  ELSE Thrown(l)]
    /\ UNCHANGED <<pins, snapshots, ledger, audit, chainTime, feed, balance, mintAuthority, env>>

\* lines 280-318: the project profile, the launch_success record, the answer
FinishLaunch(i) ==
    /\ inv[i].pc = "profile"
    /\ \E saved \in BOOLEAN : \E o1 \in SinkOutcomes : \E o2 \in SinkOutcomes :
         LET l == inv[i]
             a1 == IF saved THEN audit
                   ELSE auditLogged(audit, LaunchEvent("launch_profile_save_error", l, FALSE), o1)
             l1 == IF saved THEN l
                   ELSE [l EXCEPT !.lost = auditLost(l, "launch_profile_save_error", o1)]
         IN  /\ (saved => o1 = "stored")
             /\ IF ~saved /\ o1 = "rejects"
                THEN /\ o2 = "stored"
                     /\ audit' = audit
                     /\ inv' = [inv EXCEPT ![i] = Thrown(l)]
                ELSE /\ audit' = auditLogged(a1, LaunchEvent("launch_success", l, TRUE), o2)
                     /\ inv' = [inv EXCEPT ![i] =
                          IF o2 = "rejects" THEN Thrown(l1)
                          ELSE Responded([l1 EXCEPT !.lost = auditLost(l1, "launch_success", o2)], 200)]
    /\ UNCHANGED <<commitments, pins, snapshots, ledger, chainTime, feed, balance, mintAuthority, env>>

\* line 323: the condition of the refund
refundDue(l) == l.funded /\ l.walletId # "" /\ l.creatorPubkey /\ l.launchTxSig = ""

RefundOutcomes == {"ok", "failed", "throws"}

\* lines 320-351: the catch block up to and including the refund and its audit record
Refund(i) ==
    /\ inv[i].pc = "catch"
    /\ LET l == inv[i]
       IN  IF ~refundDue(l)
           THEN /\ inv' = [inv EXCEPT ![i] = [l EXCEPT !.pc = "error"]]
                /\ audit' = audit
           ELSE \E outcome \in RefundOutcomes : \E o1 \in SinkOutcomes : \E o2 \in SinkOutcomes :
                  LET r == [l EXCEPT !.refunds = l.refunds + 1, !.refundOk = (outcome = "ok")]
                      inTry == outcome # "throws"
                      \* the catch of line 341 runs when the refund or its audit call threw
                      inCatch == outcome = "throws" \/ o1 = "rejects"
                      a1 == IF inTry
                            THEN auditLogged(audit, LaunchEvent("launch_refund_attempt", r, outcome = "ok"), o1)
                            ELSE audit
                      a2 == IF inCatch
                            THEN auditLogged(a1, LaunchEvent("launch_refund_attempt", r, FALSE), o2)
                            ELSE a1
                      kept == (inTry /\ o1 = "stored") \/ (inCatch /\ o2 = "stored")
                  IN  /\ (~inTry => o1 = "stored")
                      /\ (~inCatch => o2 = "stored")
                      /\ audit' = a2
                      /\ inv' = [inv EXCEPT ![i] =
                           IF inCatch /\ o2 = "rejects"
                           THEN Unhandled([r EXCEPT !.lost = r.lost \cup {"launch_refund_attempt"}])
                           ELSE [r EXCEPT !.pc = "error",
                                          !.lost = IF kept THEN r.lost
                                                   ELSE r.lost \cup {"launch_refund_attempt"}]]
    /\ UNCHANGED <<commitments, pins, snapshots, ledger, chainTime, feed, balance, mintAuthority, env>>

\* lines 353-354: the launch_error audit record and the answer
AnswerError(i) ==
    /\ inv[i].pc = "error"
    /\ \E o \in SinkOutcomes :
         LET l == inv[i]
         IN  /\ audit' = auditLogged(audit, LaunchEvent("launch_error", l, FALSE), o)
             /\ inv' = [inv EXCEPT ![i] =
                  IF o = "rejects" THEN Unhandled([l EXCEPT !.lost = l.lost \cup {"launch_error"}])
                  ELSE Responded([l EXCEPT !.lost = auditLost(l, "launch_error", o)], 500)]
    /\ UNCHANGED <<commitments, pins, snapshots, ledger, chainTime, feed, balance, mintAuthority, env>>

\* no launch has been requested yet and no commitment is stored
InitLaunch ==
    /\ commitments = [id \in {} |-> LaunchRecord(LaunchIdle)]
    /\ pins = {}
    /\ snapshots = {}
    /\ ledger = {}
    /\ audit = {}
    /\ chainTime = T0
    /\ feed = <<>>
    /\ balance = BalanceHigh
    /\ mintAuthority = FALSE
    /\ inv = [i \in Slots |-> LaunchIdle]
    /\ env = DefaultEnv

NextLaunch ==
    \E i \in Slots :
        \/ LaunchPrepare(i)
        \/ AuditAttempt(i)
        \/ FundWallet(i)
        \/ AuditFunding(i)
        \/ SendTx(i)
        \/ ConfirmTx(i)
        \/ AuditOnchain(i)
        \/ InsertCommitment(i)
        \/ FinishLaunch(i)
        \/ Refund(i)
        \/ AnswerError(i)

SpecLaunch == InitLaunch /\ [][NextLaunch]_vars

-----------------------------------------------------------------------------
\* C36, C37: the launch flow

\* the request went through the catch block and is past the refund decision
AfterCatch(l) == l.error # "" /\ l.pc \in {"error", "done"}

\* the launch_refund_attempt records of the request in the audit log
RefundRecords(l) ==
    {r \in audit : r.event = "launch_refund_attempt" /\ r.commitmentId = l.commitmentId
                   /\ r.walletId = l.walletId}

\* the exception came after the funding and before a launch signature
FundedUnsent(l) == l.funded /\ l.launchTxSig = ""

\* C36 as stated: in the launch flow a refund of the creator wallet is
\* attempted exactly once, and an audit record of it exists, when an
\* exception occurs after the wallet was funded and before a launch
\* transaction signature was obtained; no refund is attempted for a wallet
\* that was not funded or once a launch transaction signature exists.
C36_RefundOnceAndLogged ==
    \A i \in Slots :
        /\ inv[i].refunds <= 1
        /\ inv[i].refunds >= 1 => FundedUnsent(inv[i])
        /\ (AfterCatch(inv[i]) /\ FundedUnsent(inv[i])) =>
              (inv[i].refunds = 1 /\ RefundRecords(inv[i]) # {})

\* what holds whatever the audit sink does: the refund is attempted exactly
\* once in that case and never otherwise, and the log holds exactly one
\* launch_refund_attempt record of the request when the sink stored it, none
\* when it did not, and none without a refund
RefundAttemptedOnce ==
    \A i \in Slots :
        /\ inv[i].refunds <= 1
        /\ inv[i].refunds >= 1 => FundedUnsent(inv[i])
        /\ (AfterCatch(inv[i]) /\ FundedUnsent(inv[i])) =>
              /\ inv[i].refunds = 1
              /\ Cardinality(RefundRecords(inv[i])) =
                    IF "launch_refund_attempt" \in inv[i].lost THEN 0 ELSE 1
        /\ (inv[i].commitmentId # "" /\ inv[i].refunds = 0) => RefundRecords(inv[i]) = {}
        /\ \A r \in RefundRecords(inv[i]) : r.ok => inv[i].refundOk

\* the order of the steps of a launch
LaunchOrder == <<"launch_attempt", "fund", "send", "confirm", "insert">>

IsPrefixOf(s, t) == Len(s) <= Len(t) /\ \A k \in 1..Len(s) : s[k] = t[k]

\* the launch_attempt records in the audit log that carry the commitment id
\* and the token mint of the request
AttemptRecords(l) ==
    {r \in audit : r.event = "launch_attempt" /\ r.commitmentId = l.commitmentId
                   /\ r.tokenMint = l.tokenMint}

\* the steps of every request follow the order, and a stored commitment
\* belongs to a request whose launch transaction was confirmed
StepsInOrder ==
    /\ \A i \in Slots :
          /\ IsPrefixOf(inv[i].steps, LaunchOrder)
          /\ inv[i].funded <=> Len(inv[i].steps) >= 2
          /\ inv[i].launchTxSig # "" <=> Len(inv[i].steps) >= 3
    /\ \A id \in DOMAIN commitments :
          \E i \in Slots :
              /\ inv[i].commitmentId = id /\ commitments[id].tokenMint = inv[i].tokenMint
              /\ inv[i].steps = LaunchOrder

\* C37 as stated: the steps of a launch occur in the order launch_attempt
\* audit record, fund, send, confirm, insert; a commitment record is inserted
\* only for a launch whose transaction was confirmed; and every funded launch
\* has a launch_attempt audit record with its commitment id and token mint.
C37_AttemptRecorded ==
    /\ StepsInOrder
    /\ \A i \in Slots : inv[i].funded => AttemptRecords(inv[i]) # {}

\* what holds whatever the audit sink does: the order, the insertion only
\* after confirmation, and the launch_attempt audit call before the funding,
\* whose record is in the log when the sink stored it
LaunchStepsOrdered ==
    /\ StepsInOrder
    /\ \A i \in Slots : inv[i].funded =>
          /\ inv[i].steps[1] = "launch_attempt"
          /\ Cardinality(AttemptRecords(inv[i])) =
                IF "launch_attempt" \in inv[i].lost THEN 0 ELSE 1

====
